---- MODULE Spec2Model ----
(***************************************************************************)
(* Model of the transaction decoding engine of solana-txn-tui              *)
(* (src/src/solana/client.rs, src/src/solana/types.rs).                    *)
(*                                                                         *)
(* Strings are TLA+ strings; the character at position i of s is           *)
(* SubSeq(s, i, i).  A Pubkey is its 32 bytes (a sequence of 32 numbers in *)
(* 0..255); Option<T> is None or [some |-> v]; Result<T> is                *)
(* [ok |-> TRUE, val |-> v] or [ok |-> FALSE, err |-> message].            *)
(***************************************************************************)
EXTENDS Integers, Sequences, FiniteSets, TLC

VARIABLES txn, result, inner_instructions, pc, app, outcome

vars == <<txn, result, inner_instructions, pc, app, outcome>>

None == [none |-> TRUE]

Some(v) == [some |-> v]

IsSome(o) == o # None

Ok(v) == [ok |-> TRUE, val |-> v]

Err(e) == [ok |-> FALSE, err |-> e]

(***************************************************************************)
(* Sequence helpers (iterator adaptors of the Rust code).                  *)
(***************************************************************************)
Reverse(s) == [i \in 1..Len(s) |-> s[Len(s) + 1 - i]]

RECURSIVE Flatten(_)
Flatten(ss) == IF ss = <<>> THEN <<>> ELSE Head(ss) \o Flatten(Tail(ss))

Repeat(x, n) == [i \in 1..n |-> x]

\* slice.get(i) with a 0-based index
Get(s, i) == IF i >= 0 /\ i < Len(s) THEN Some(s[i + 1]) ELSE None

\* the values of the Some entries of a sequence of options, in order (filter_map)
FilterSome(s) ==
    LET kept == SelectSeq(s, IsSome)
    IN  [i \in 1..Len(kept) |-> kept[i].some]

Range(s) == {s[i] : i \in 1..Len(s)}

(***************************************************************************)
(* usize::saturating_sub                                                   *)
(***************************************************************************)
\* a subtraction that wraps instead of clamping (width shortened to 16 bits)
wrapping_sub(a, b) == (a - b) % 65536

saturating_sub(a, b) == IF a >= b THEN a - b ELSE 0

(***************************************************************************)
(* Strings.                                                                *)
(***************************************************************************)
CharAt(s, i) == SubSeq(s, i, i)

\* str::contains
Contains(s, pat) ==
    \E i \in 1..(Len(s) - Len(pat) + 1) : SubSeq(s, i, i + Len(pat) - 1) = pat

IsWhitespace(c) == c \in {" ", "\t", "\n", "\r"}

\* s.split_whitespace().next().unwrap_or("")
FirstToken(s) ==
    LET starts == {i \in 1..Len(s) : ~IsWhitespace(CharAt(s, i))}
    IN  IF starts = {} THEN ""
        ELSE LET b == CHOOSE i \in starts : \A j \in starts : i <= j
                 ends == {i \in b..Len(s) : i = Len(s) \/ IsWhitespace(CharAt(s, i + 1))}
                 e == CHOOSE i \in ends : \A j \in ends : i <= j
             IN  SubSeq(s, b, e)

(***************************************************************************)
(* bs58 (Bitcoin alphabet): decode(..).into_vec() and encode.              *)
(***************************************************************************)
\* the characters of the alphabet: the character of digit d is Base58Alphabet[d + 1]
Base58Alphabet ==
    <<"1", "2", "3", "4", "5", "6", "7", "8", "9", "A", "B", "C",
      "D", "E", "F", "G", "H", "J", "K", "L", "M", "N", "P", "Q",
      "R", "S", "T", "U", "V", "W", "X", "Y", "Z", "a", "b", "c",
      "d", "e", "f", "g", "h", "i", "j", "k", "m", "n", "o", "p",
      "q", "r", "s", "t", "u", "v", "w", "x", "y", "z">>

\* the digit of a character, or -1 when the character is not in the alphabet
Base58Digit(c) ==
    LET hits == {i \in 1..Len(Base58Alphabet) : Base58Alphabet[i] = c}
    IN  IF hits = {} THEN -1 ELSE (CHOOSE i \in hits : TRUE) - 1

\* one step of the conversion: digits (little-endian, radix `to`) times `from` plus carry
RECURSIVE MulAdd(_, _, _, _)
MulAdd(digits, carry, from, to) ==
    IF digits = <<>>
    THEN IF carry = 0 THEN <<>> ELSE <<carry % to>> \o MulAdd(<<>>, carry \div to, from, to)
    ELSE LET v == carry + Head(digits) * from
         IN  <<v % to>> \o MulAdd(Tail(digits), v \div to, from, to)

RECURSIVE LeadingCount(_, _)
LeadingCount(s, x) ==
    IF Len(s) = 0 \/ Head(s) # x THEN 0 ELSE 1 + LeadingCount(Tail(s), x)

RECURSIVE Bs58DecodeLE(_, _, _)
Bs58DecodeLE(digits, i, acc) ==
    IF i > Len(digits) THEN acc
    ELSE LET next == MulAdd(acc, digits[i], 58, 256)
         IN  IF Len(next) < 0 THEN <<>> ELSE Bs58DecodeLE(digits, i + 1, next)

RECURSIVE StrDigits(_)
StrDigits(s) ==
    IF Len(s) = 0 THEN <<>> ELSE <<Base58Digit(CharAt(s, 1))>> \o StrDigits(Tail(s))

\* bs58::decode(s).into_vec() by its definition: Err on a character outside the
\* alphabet
Bs58DecodeDigits(s) ==
    IF \E i \in 1..Len(s) : Base58Digit(CharAt(s, i)) < 0
    THEN Err("InvalidCharacter")
    ELSE LET digits == StrDigits(s)
         IN  Ok(Repeat(0, LeadingCount(digits, 0)) \o Reverse(Bs58DecodeLE(digits, 1, <<>>)))

RECURSIVE Bs58EncodeLE(_, _, _)
Bs58EncodeLE(bytes, i, acc) ==
    IF i > Len(bytes) THEN acc
    ELSE LET next == MulAdd(acc, bytes[i], 256, 58)
         IN  IF Len(next) < 0 THEN <<>> ELSE Bs58EncodeLE(bytes, i + 1, next)

RECURSIVE DigitsToStr(_)
DigitsToStr(ds) ==
    IF ds = <<>> THEN "" ELSE Base58Alphabet[Head(ds) + 1] \o DigitsToStr(Tail(ds))

\* bs58::encode(bytes).into_string() by its definition
Bs58EncodeDigits(bytes) ==
    DigitsToStr(Repeat(0, LeadingCount(bytes, 0)) \o Reverse(Bs58EncodeLE(bytes, 1, <<>>)))

\* u64::from_le_bytes
RECURSIVE u64_from_le_bytes(_)
u64_from_le_bytes(bytes) ==
    IF bytes = <<>> THEN 0 ELSE Head(bytes) + 256 * u64_from_le_bytes(Tail(bytes))

\* Bs58DecodeDigits and Bs58EncodeDigits tabulated for the addresses and the
\* payloads the model uses, so that they are not recomputed at every use;
\* Bs58TableExact states that the table is exact
Bs58Table ==
    << <<"11111111111111111111111111111111",
         <<0, 0, 0, 0, 0, 0, 0, 0, 0, 0, 0, 0, 0, 0, 0, 0,
           0, 0, 0, 0, 0, 0, 0, 0, 0, 0, 0, 0, 0, 0, 0, 0>> >>,
       <<"TokenkegQfeZyiNwAJbNbGKPFXCWuBvf9Ss623VQ5DA",
         <<6, 221, 246, 225, 215, 101, 161, 147, 217, 203, 225, 70, 206, 235, 121, 172,
           28, 180, 133, 237, 95, 91, 55, 145, 58, 140, 245, 133, 126, 255, 0, 169>> >>,
       <<"TokenzQdBNbLqP5VEhdkAS6EPFLC1PHnBqCQbphWkTg",
         <<6, 221, 246, 225, 238, 117, 143, 222, 24, 66, 93, 188, 228, 108, 205, 218,
           182, 26, 252, 77, 131, 185, 13, 39, 254, 189, 235, 212, 108, 44, 85, 127>> >>,
       <<"ATokenGPvbdGVxr1b2hvZbsiqW5xWH25efTNsLJA8knL",
         <<140, 151, 37, 143, 78, 36, 137, 241, 187, 61, 16, 41, 20, 142, 13, 131,
           11, 90, 19, 153, 218, 255, 16, 132, 4, 142, 123, 216, 219, 233, 248, 89>> >>,
       <<"ComputeBudget111111111111111111111111111111",
         <<3, 6, 70, 111, 229, 33, 23, 50, 255, 236, 173, 186, 114, 195, 155, 231,
           188, 140, 229, 187, 197, 247, 18, 107, 44, 67, 155, 58, 64, 0, 0, 0>> >>,
       <<"Config1111111111111111111111111111111111111",
         <<3, 6, 74, 163, 0, 47, 116, 220, 200, 110, 67, 49, 15, 12, 5, 42,
           248, 197, 218, 39, 246, 16, 64, 25, 163, 35, 239, 160, 0, 0, 0, 0>> >>,
       <<"Stake11111111111111111111111111111111111111",
         <<6, 161, 216, 23, 145, 55, 84, 42, 152, 52, 55, 189, 254, 42, 122, 178,
           85, 127, 83, 92, 138, 120, 114, 43, 104, 164, 157, 192, 0, 0, 0, 0>> >>,
       <<"Vote111111111111111111111111111111111111111",
         <<7, 97, 72, 29, 53, 116, 116, 187, 124, 77, 118, 36, 235, 211, 189, 179,
           216, 53, 94, 115, 209, 16, 67, 252, 13, 163, 83, 128, 0, 0, 0, 0>> >>,
       <<"AddressLookupTab1e1111111111111111111111111",
         <<2, 119, 166, 175, 151, 51, 155, 122, 200, 141, 24, 146, 201, 4, 70, 245,
           0, 2, 48, 146, 102, 246, 46, 83, 193, 24, 36, 73, 130, 0, 0, 0>> >>,
       <<"BPFLoaderUpgradeab1e11111111111111111111111",
         <<2, 168, 246, 145, 78, 136, 161, 176, 226, 16, 21, 62, 247, 99, 174, 43,
           0, 194, 185, 61, 22, 193, 36, 210, 192, 83, 122, 16, 4, 128, 0, 0>> >>,
       <<"BPFLoader2111111111111111111111111111111111",
         <<2, 168, 246, 145, 78, 136, 161, 110, 57, 90, 225, 40, 148, 143, 250, 105,
           86, 147, 55, 104, 24, 221, 71, 67, 82, 33, 243, 198, 0, 0, 0, 0>> >>,
       <<"BPFLoader1111111111111111111111111111111111",
         <<2, 168, 246, 145, 78, 136, 161, 107, 189, 35, 149, 133, 95, 100, 4, 217,
           180, 244, 86, 183, 130, 27, 176, 20, 87, 73, 66, 140, 0, 0, 0, 0>> >>,
       <<"Ed25519SigVerify111111111111111111111111111",
         <<3, 125, 70, 214, 124, 147, 251, 190, 18, 249, 66, 143, 131, 141, 64, 255,
           5, 112, 116, 73, 39, 244, 138, 100, 252, 202, 112, 68, 128, 0, 0, 0>> >>,
       <<"KeccakSecp256k11111111111111111111111111111",
         <<4, 198, 252, 32, 240, 80, 204, 240, 85, 132, 215, 33, 28, 159, 140, 245,
           158, 193, 71, 133, 187, 22, 106, 30, 40, 48, 232, 18, 32, 0, 0, 0>> >>,
       <<"MemoSq4gqABAXKb96qnH8TysNcWxMyWCqXgDLGmfcHr",
         <<5, 74, 83, 90, 153, 41, 33, 6, 77, 36, 232, 113, 96, 218, 56, 124,
           124, 53, 181, 221, 188, 146, 187, 129, 228, 31, 168, 64, 65, 5, 68, 141>> >>,
       <<"SysvarRent111111111111111111111111111111111",
         <<6, 167, 213, 23, 25, 44, 92, 81, 33, 140, 201, 76, 61, 74, 241, 127,
           88, 218, 238, 8, 155, 161, 253, 68, 227, 219, 217, 138, 0, 0, 0, 0>> >>,
       <<"SysvarC1ock11111111111111111111111111111111",
         <<6, 167, 213, 23, 24, 199, 116, 201, 40, 86, 99, 152, 105, 29, 94, 182,
           139, 94, 184, 163, 155, 75, 109, 92, 115, 85, 91, 33, 0, 0, 0, 0>> >>,
       <<"So11111111111111111111111111111111111111112",
         <<6, 155, 136, 87, 254, 171, 129, 132, 251, 104, 127, 99, 70, 24, 192, 53,
           218, 196, 57, 220, 26, 235, 59, 85, 152, 160, 240, 0, 0, 0, 0, 1>> >>,
       <<"3Bxs3zzLZLuLQEYX",
         <<2, 0, 0, 0, 0, 202, 154, 59, 0, 0, 0, 0>> >>,
       <<"3Bxs41hAcYbghSB9",
         <<2, 0, 0, 0, 5, 0, 0, 0, 0, 0, 0, 0>> >>,
       <<"VmNmBexxBhQGKy",
         <<2, 0, 0, 0, 7, 0, 0, 0, 0, 0, 0>> >>,
       <<"3tGNFMqHiozw",
         <<3, 232, 3, 0, 0, 0, 0, 0, 0>> >>,
       <<"3EdUJnbcGFLs",
         <<3, 7, 0, 0, 0, 0, 0, 0, 0>> >>,
       <<"WNQQWpGEsq",
         <<3, 7, 0, 0, 0, 0, 0, 0>> >>,
       <<"4HSo5WczjnNyp8bR",
         <<3, 0, 0, 0, 5, 0, 0, 0, 0, 0, 0, 0>> >>,
       <<"Fj2Eoy",
         <<2, 64, 13, 3, 0>> >>,
       <<"2222222222222222222222222222222222222222222222222222222222222222222222222222222222222222",
         <<50, 228, 253, 68, 243, 85, 237, 197, 177, 60, 215, 172, 33, 193, 36, 83,
           63, 222, 32, 89, 27, 131, 59, 112, 118, 211, 119, 185, 190, 156, 254, 24,
           54, 64, 64, 96, 51, 22, 153, 61, 43, 90, 220, 233, 224, 144, 107, 138,
           210, 26, 31, 201, 197, 17, 247, 4, 125, 193, 31, 112, 71, 220, 17, 247>> >>,
       <<"222222222222222222222222222222222222222222222222222222222222222222222222222222222222222",
         <<224, 163, 67, 101, 76, 132, 25, 122, 58, 109, 166, 71, 51, 225, 186, 208,
           140, 168, 72, 40, 50, 208, 121, 28, 136, 15, 78, 60, 170, 110, 79, 221,
           160, 1, 28, 36, 48, 240, 252, 164, 14, 206, 215, 228, 249, 169, 148, 12,
           115, 53, 131, 122, 145, 247, 4, 125, 193, 31, 112, 71, 220, 17, 247>> >> >>

Bs58TableExact ==
    \A i \in 1..Len(Bs58Table) :
        /\ Bs58DecodeDigits(Bs58Table[i][1]) = Ok(Bs58Table[i][2])
        /\ Bs58EncodeDigits(Bs58Table[i][2]) = Bs58Table[i][1]

Bs58Decode(s) ==
    LET hits == {i \in 1..Len(Bs58Table) : Bs58Table[i][1] = s}
    IN  IF hits # {} THEN Ok(Bs58Table[CHOOSE i \in hits : TRUE][2])
        ELSE Bs58DecodeDigits(s)

Bs58Encode(bytes) ==
    LET hits == {i \in 1..Len(Bs58Table) : Bs58Table[i][2] = bytes}
    IN  IF hits # {} THEN Bs58Table[CHOOSE i \in hits : TRUE][1]
        ELSE Bs58EncodeDigits(bytes)

(***************************************************************************)
(* Pubkey (solana_sdk): from_str, to_string, default.                      *)
(***************************************************************************)
\* Pubkey::from_str: ParsePubkeyError::WrongSize or ::Invalid
Pubkey_from_str(s) ==
    IF Len(s) > 44 THEN Err("WrongSize")
    ELSE LET d == Bs58Decode(s)
         IN  IF ~d.ok THEN Err("Invalid")
             ELSE IF Len(d.val) # 32 THEN Err("WrongSize")
             ELSE Ok(d.val)

\* Result::ok
ResultOk(r) == IF r.ok THEN Some(r.val) ELSE None

Pubkey_to_string(p) == Bs58Encode(p)

Pubkey_default == Repeat(0, 32)

(***************************************************************************)
(* types.rs: the Program Registry.                                         *)
(***************************************************************************)
KNOWN_PROGRAMS ==
    << <<"11111111111111111111111111111111", "System Program">>,
       <<"TokenkegQfeZyiNwAJbNbGKPFXCWuBvf9Ss623VQ5DA", "Token Program">>,
       <<"TokenzQdBNbLqP5VEhdkAS6EPFLC1PHnBqCQbphWkTg", "Token-2022 Program">>,
       <<"ATokenGPvbdGVxr1b2hvZbsiqW5xWH25efTNsLJA8knL", "Associated Token Account">>,
       <<" ComputeBudget111111111111111111111111111111", "Compute Budget">>,
       <<"Config1111111111111111111111111111111111111", "Config Program">>,
       <<"Stake11111111111111111111111111111111111111", "Stake Program">>,
       <<"Vote111111111111111111111111111111111111111", "Vote Program">>,
       <<"AddressLookupTab1e1111111111111111111111111", "Address Lookup Table">>,
       <<"BPFLoaderUpgradeab1e11111111111111111111111", "BPF Loader Upgradeable">>,
       <<"BPFLoader2111111111111111111111111111111111", "BPF Loader">>,
       <<"BPFLoader1111111111111111111111111111111111", "BPF Loader (Legacy)">>,
       <<"Ed25519SigVerify111111111111111111111111111", "Ed25519 SigVerify">>,
       <<"KeccakSecp256k11111111111111111111111111111", "Secp256k1 Program">> >>

\* KNOWN_PROGRAMS.iter().find(|(id, _)| *id == program_id_str).map(|(_, name)| *name)
get_program_name(program_id) ==
    LET program_id_str == Pubkey_to_string(program_id)
        hits == {i \in 1..Len(KNOWN_PROGRAMS) : KNOWN_PROGRAMS[i][1] = program_id_str}
    IN  IF hits = {} THEN None
        ELSE Some(KNOWN_PROGRAMS[CHOOSE i \in hits : \A j \in hits : i <= j][2])

(***************************************************************************)
(* serde_json::Value: [j |-> "null"], [j |-> "bool", b |-> b],             *)
(* [j |-> "num", n |-> n], [j |-> "str", s |-> s] and                      *)
(* [j |-> "obj", o |-> entries], the entries <<key, value>> in the map's   *)
(* iteration order.                                                        *)
(***************************************************************************)
\* Value::get(key)
\* a lookup that takes the first entry of the object whatever its key
JsonGetFirst(value, key) ==
    IF value.j # "obj" THEN None
    ELSE IF value.o = <<>> THEN None ELSE Some(value.o[1][2])

JsonGet(value, key) ==
    IF value.j # "obj" THEN None
    ELSE LET hits == {i \in 1..Len(value.o) : value.o[i][1] = key}
         IN  IF hits = {} THEN None ELSE Some(value.o[CHOOSE i \in hits : TRUE][2])

\* Value::as_str
JsonAsStr(value) == IF value.j = "str" THEN Some(value.s) ELSE None

\* Value::to_string (compact JSON; the strings of the model need no escapes)
RECURSIVE JsonToString(_)
RECURSIVE JsonEntries(_)
JsonEntries(es) ==
    IF es = <<>> THEN ""
    ELSE "\"" \o Head(es)[1] \o "\":" \o JsonToString(Head(es)[2])
         \o (IF Len(es) > 1 THEN "," ELSE "") \o JsonEntries(Tail(es))

JsonToString(value) ==
    CASE value.j = "null" -> "null"
      [] value.j = "bool" -> (IF value.b THEN "true" ELSE "false")
      [] value.j = "num" -> ToString(value.n)
      [] value.j = "str" -> "\"" \o value.s \o "\""
      [] value.j = "obj" -> "{" \o JsonEntries(value.o) \o "}"

(***************************************************************************)
(* client.rs: the Opcode Classifier.                                       *)
(***************************************************************************)
SystemLabels ==
    <<"CreateAccount", "Assign", "Transfer", "CreateAccountWithSeed",
      "AdvanceNonceAccount", "WithdrawNonceAccount", "InitializeNonceAccount",
      "AuthorizeNonceAccount", "Allocate", "AllocateWithSeed", "AssignWithSeed",
      "TransferWithSeed", "UpgradeNonceAccount">>

TokenLabels ==
    <<"InitializeMint", "InitializeAccount", "InitializeMultisig", "Transfer",
      "Approve", "Revoke", "SetAuthority", "MintTo", "Burn", "CloseAccount",
      "FreezeAccount", "ThawAccount", "TransferChecked", "ApproveChecked",
      "MintToChecked", "BurnChecked", "InitializeAccount2", "SyncNative",
      "InitializeAccount3", "InitializeMultisig2", "InitializeMint2">>

ComputeBudgetLabels ==
    <<"RequestUnits", "RequestHeapFrame", "SetComputeUnitLimit",
      "SetComputeUnitPrice", "SetLoadedAccountsDataSizeLimit">>

\* a match without the `_` arm: a byte past the table wraps around it
MatchFirstByteWrapping(data, labels) ==
    LET decoded == Bs58Decode(data)
    IN  IF decoded.ok
        THEN IF decoded.val # <<>>
             THEN labels[(decoded.val[1] % Len(labels)) + 1]
             ELSE "Unknown"
        ELSE "Unknown"

\* match decoded[0] { 0 => labels[1], 1 => labels[2], ..., _ => "Unknown" }
MatchFirstByte(data, labels) ==
    LET decoded == Bs58Decode(data)
    IN  IF decoded.ok
        THEN IF decoded.val # <<>>
             THEN IF decoded.val[1] < Len(labels) THEN labels[decoded.val[1] + 1]
                  ELSE "Unknown"
             ELSE "Unknown"
        ELSE "Unknown"

\* a classifier that ignores the program and always uses the Token table
identify_by_token_table(program_id, data) == MatchFirstByte(data, TokenLabels)

\* a classifier that ignores the program and always uses the System table
identify_by_first_byte(program_id, data) == MatchFirstByte(data, SystemLabels)

identify_instruction_type(program_id, data) ==
    LET program_name == get_program_name(program_id)
    IN  CASE program_name = Some("System Program") -> MatchFirstByte(data, SystemLabels)
          [] program_name \in {Some("Token Program"), Some("Token-2022 Program")} ->
                MatchFirstByte(data, TokenLabels)
          [] program_name = Some("Compute Budget") -> MatchFirstByte(data, ComputeBudgetLabels)
          [] OTHER -> "Unknown"

(***************************************************************************)
(* client.rs: the Instruction Normalizer.                                  *)
(***************************************************************************)
AccountMeta(pubkey, is_signer, is_writable, pre_balance, post_balance, account_type) ==
    [pubkey |-> pubkey, is_signer |-> is_signer, is_writable |-> is_writable,
     pre_balance |-> pre_balance, post_balance |-> post_balance,
     account_type |-> account_type]

InstructionInfo(program_id, program_name, instruction_type, data, accounts) ==
    [program_id |-> program_id, program_name |-> program_name,
     instruction_type |-> instruction_type, data |-> data, accounts |-> accounts,
     compute_units_consumed |-> None]

\* format!("{} ({} bytes)", data, decoded.len()) when the data decodes to >= 1 byte
\* an annotation with the length of the text in place of the decoded length
AnnotateWithTextLength(data) ==
    IF Bs58Decode(data).ok /\ data # ""
    THEN data \o " (" \o ToString(Len(data)) \o " bytes)"
    ELSE data

AnnotateData(data) ==
    LET decoded == Bs58Decode(data)
    IN  IF decoded.ok
        THEN IF Len(decoded.val) >= 1
             THEN data \o " (" \o ToString(Len(decoded.val)) \o " bytes)"
             ELSE data
        ELSE data

\* a variant that swallows an out-of-range program_id_index: the program becomes
\* the default key instead of a failure
parse_raw_instruction_or_default(ui_instr, account_keys) ==
    LET found == Get(account_keys, ui_instr.program_id_index)
        program_id == IF found = None THEN Pubkey_default ELSE found.some
        accounts ==
            FilterSome([k \in 1..Len(ui_instr.accounts) |->
                LET key == Get(account_keys, ui_instr.accounts[k])
                IN  IF key = None THEN None
                    ELSE Some(AccountMeta(key.some, FALSE, FALSE, None, None, None))])
    IN  Ok(InstructionInfo(program_id,
                           get_program_name(program_id),
                           identify_instruction_type(program_id, ui_instr.data),
                           AnnotateData(ui_instr.data),
                           accounts))

\* a normalizer that rejects the instruction when one of its account indices is
\* out of range
parse_raw_instruction_checked(ui_instr, account_keys) ==
    IF \E k \in 1..Len(ui_instr.accounts) : Get(account_keys, ui_instr.accounts[k]) = None
    THEN Err("Invalid account index")
    ELSE parse_raw_instruction_or_default(ui_instr, account_keys)

parse_raw_instruction(ui_instr, account_keys) ==
    LET program_id == Get(account_keys, ui_instr.program_id_index)
    IN  IF program_id = None THEN Err("Invalid program_id_index")
        ELSE LET accounts ==
                     FilterSome([k \in 1..Len(ui_instr.accounts) |->
                         LET key == Get(account_keys, ui_instr.accounts[k])
                         IN  IF key = None THEN None
                             ELSE Some(AccountMeta(key.some, FALSE, FALSE, None, None, None))])
             IN  Ok(InstructionInfo(program_id.some,
                                    get_program_name(program_id.some),
                                    identify_instruction_type(program_id.some, ui_instr.data),
                                    AnnotateData(ui_instr.data),
                                    accounts))

\* Pubkey::from_str(s).unwrap_or_default()
PubkeyOrDefault(s) ==
    LET r == Pubkey_from_str(s) IN IF r.ok THEN r.val ELSE Pubkey_default

\* the accounts of a semantically parsed instruction: the entries of `info` whose
\* value is a string that parses as a public key
\* an extraction that gives the default pubkey to a string that is no pubkey
ParsedInfoAccountsOrDefault(parsed_value) ==
    LET info == JsonGet(parsed_value, "info")
    IN  IF info = None THEN <<>>
        ELSE IF info.some.j # "obj" THEN <<>>
        ELSE LET obj == info.some.o
             IN  FilterSome([k \in 1..Len(obj) |->
                     LET key == obj[k][1]
                         pubkey_str == JsonAsStr(obj[k][2])
                     IN  IF pubkey_str = None THEN None
                         ELSE Some(AccountMeta(
                                  PubkeyOrDefault(pubkey_str.some),
                                  Contains(key, "authority") \/ Contains(key, "owner"),
                                  Contains(key, "source") \/ Contains(key, "destination"),
                                  None, None, Some(key)))])

\* an iteration over the entries of `info` whose order changes from one run to
\* the next, as that of a map hashed with a per-run seed
ParsedInfoAccountsSeeded(parsed_value) ==
    LET info == JsonGet(parsed_value, "info")
    IN  IF info = None THEN <<>>
        ELSE IF info.some.j # "obj" THEN <<>>
        ELSE LET obj == IF pc = "fetched" THEN info.some.o ELSE Reverse(info.some.o)
             IN  FilterSome([k \in 1..Len(obj) |->
                     LET key == obj[k][1]
                         pubkey_str == JsonAsStr(obj[k][2])
                     IN  IF pubkey_str = None THEN None
                         ELSE LET pubkey == Pubkey_from_str(pubkey_str.some)
                              IN  IF ~pubkey.ok THEN None
                                  ELSE Some(AccountMeta(
                                           pubkey.val,
                                           Contains(key, "authority") \/ Contains(key, "owner"),
                                           Contains(key, "source") \/ Contains(key, "destination"),
                                           None, None, Some(key)))])

ParsedInfoAccounts(parsed_value) ==
    LET info == JsonGet(parsed_value, "info")
    IN  IF info = None THEN <<>>
        ELSE IF info.some.j # "obj" THEN <<>>
        ELSE LET obj == info.some.o
             IN  FilterSome([k \in 1..Len(obj) |->
                     LET key == obj[k][1]
                         pubkey_str == JsonAsStr(obj[k][2])
                     IN  IF pubkey_str = None THEN None
                         ELSE LET pubkey == Pubkey_from_str(pubkey_str.some)
                              IN  IF ~pubkey.ok THEN None
                                  ELSE Some(AccountMeta(
                                           pubkey.val,
                                           Contains(key, "authority") \/ Contains(key, "owner"),
                                           Contains(key, "source") \/ Contains(key, "destination"),
                                           None, None, Some(key)))])

parse_parsed_instruction(ui_instr) ==
    IF ui_instr.kind = "Parsed"
    THEN LET program_id == PubkeyOrDefault(ui_instr.program_id)
             type == JsonGet(ui_instr.parsed, "type")
             type_str == IF type = None THEN None ELSE JsonAsStr(type.some)
             info == JsonGet(ui_instr.parsed, "info")
             instruction_type == IF type_str # None THEN type_str.some ELSE "Unknown"
             data == IF type_str # None
                     THEN IF info = None THEN "" ELSE JsonToString(info.some)
                     ELSE JsonToString(ui_instr.parsed)
         IN  InstructionInfo(program_id, get_program_name(program_id), instruction_type,
                             data, ParsedInfoAccounts(ui_instr.parsed))
    ELSE LET program_id == PubkeyOrDefault(ui_instr.program_id)
             accounts ==
                 FilterSome([k \in 1..Len(ui_instr.accounts) |->
                     LET pubkey == Pubkey_from_str(ui_instr.accounts[k])
                     IN  IF ~pubkey.ok THEN None
                         ELSE Some(AccountMeta(pubkey.val, FALSE, FALSE, None, None, None))])
         IN  InstructionInfo(program_id, get_program_name(program_id), "PartiallyDecoded",
                             ui_instr.data, accounts)

\* the placeholder of a compiled instruction that fails inside a pre-parsed message
CompiledFallback(compiled) ==
    InstructionInfo(Pubkey_default, None, "Unknown (Compiled)", compiled.data, <<>>)

\* the message of a Json-encoded transaction: its kind is "Raw" or "Parsed"
IsJson(t) == t.transaction.encoding = "Json"

\* parse_instructions, Raw message: the first failing instruction aborts the loop (`?`)
RECURSIVE ParseRawInstructions(_, _)
ParseRawInstructions(instrs, account_keys) ==
    IF instrs = <<>> THEN Ok(<<>>)
    ELSE LET instruction == parse_raw_instruction(Head(instrs), account_keys)
         IN  IF ~instruction.ok THEN instruction
             ELSE LET rest == ParseRawInstructions(Tail(instrs), account_keys)
                  IN  IF ~rest.ok THEN rest ELSE Ok(<<instruction.val>> \o rest.val)

\* a variant without the fallback: a compiled instruction that fails inside a
\* pre-parsed message aborts the whole list as well
parse_instructions_strict(t, account_keys) ==
    IF ~IsJson(t) THEN Ok(<<>>)
    ELSE LET message == t.transaction.message
         IN  IF message.kind = "Raw"
             THEN ParseRawInstructions(message.instructions, account_keys)
             ELSE IF \E k \in 1..Len(message.instructions) :
                        /\ message.instructions[k].kind = "Compiled"
                        /\ ~parse_raw_instruction(message.instructions[k], account_keys).ok
                  THEN Err("Invalid program_id_index")
                  ELSE Ok([k \in 1..Len(message.instructions) |->
                           LET ui_instr == message.instructions[k]
                           IN  IF ui_instr.kind = "Compiled"
                               THEN parse_raw_instruction(ui_instr, account_keys).val
                               ELSE parse_parsed_instruction(ui_instr)])

parse_instructions(t, account_keys) ==
    IF ~IsJson(t) THEN Ok(<<>>)
    ELSE LET message == t.transaction.message
         IN  IF message.kind = "Raw"
             THEN ParseRawInstructions(message.instructions, account_keys)
             ELSE Ok([k \in 1..Len(message.instructions) |->
                      LET ui_instr == message.instructions[k]
                      IN  IF ui_instr.kind = "Compiled"
                          THEN LET r == parse_raw_instruction(ui_instr, account_keys)
                               IN  IF r.ok THEN r.val ELSE CompiledFallback(ui_instr)
                          ELSE parse_parsed_instruction(ui_instr)])

\* one inner instruction: compiled ones that fail are left out
ParseInnerInstruction(ui_instr, account_keys) ==
    IF ui_instr.kind = "Compiled"
    THEN LET r == parse_raw_instruction(ui_instr, account_keys)
         IN  IF r.ok THEN <<r.val>> ELSE <<>>
    ELSE <<parse_parsed_instruction(ui_instr)>>

parse_inner_instructions(inner_ix_option, account_keys) ==
    IF inner_ix_option = None THEN <<>>
    ELSE Flatten([g \in 1..Len(inner_ix_option.some) |->
             Flatten([k \in 1..Len(inner_ix_option.some[g].instructions) |->
                 ParseInnerInstruction(inner_ix_option.some[g].instructions[k],
                                       account_keys)])])

(***************************************************************************)
(* client.rs: the Derived-Event Extractors.                                *)
(***************************************************************************)
\* parse_transfer_log and parse_token_transfer_event both return None
\* a reconstruction that reports a transfer for every matching line
parse_transfer_log_reporting(log, account_keys) ==
    Some([from |-> Pubkey_default, to |-> Pubkey_default, mint |-> Pubkey_default,
          amount |-> 0, decimals |-> 0, token_name |-> None, program |-> "Token Program"])

parse_transfer_log(log, account_keys) == None

parse_token_transfer_event(log, account_keys) == None

parse_token_transfers_from_logs(logs, account_keys) ==
    IF logs = None THEN <<>>
    ELSE Flatten([k \in 1..Len(logs.some) |->
             LET log == logs.some[k]
             IN  (IF Contains(log, "Transfer") /\ Contains(log, "amount:")
                  THEN FilterSome(<<parse_transfer_log(log, account_keys)>>) ELSE <<>>)
                 \o
                 (IF Contains(log, "Token:Transfer")
                  THEN FilterSome(<<parse_token_transfer_event(log, account_keys)>>)
                  ELSE <<>>)])

\* a variant that takes the two accounts in the other order
SolTransferSwapped(instruction) ==
    LET program_name == get_program_name(instruction.program_id)
    IN  IF program_name = Some("System Program") /\ instruction.instruction_type = "Transfer"
        THEN IF Len(instruction.accounts) >= 2
             THEN LET decoded == Bs58Decode(FirstToken(instruction.data))
                  IN  IF decoded.ok
                      THEN IF Len(decoded.val) >= 12
                           THEN <<[from |-> instruction.accounts[2].pubkey,
                                   to |-> instruction.accounts[1].pubkey,
                                   amount |-> u64_from_le_bytes(SubSeq(decoded.val, 5, 12))]>>
                           ELSE <<>>
                      ELSE <<>>
             ELSE <<>>
        ELSE <<>>

\* the transfers pushed by one iteration of the loop of parse_sol_transfers
SolTransferOf(instruction) ==
    LET program_name == get_program_name(instruction.program_id)
    IN  IF program_name = Some("System Program") /\ instruction.instruction_type = "Transfer"
        THEN IF Len(instruction.accounts) >= 2
             THEN LET decoded == Bs58Decode(FirstToken(instruction.data))
                  IN  IF decoded.ok
                      THEN IF Len(decoded.val) >= 12
                           THEN <<[from |-> instruction.accounts[1].pubkey,
                                   to |-> instruction.accounts[2].pubkey,
                                   amount |-> u64_from_le_bytes(SubSeq(decoded.val, 5, 12))]>>
                           ELSE <<>>
                      ELSE <<>>
             ELSE <<>>
        ELSE <<>>

parse_sol_transfers(instructions) ==
    Flatten([k \in 1..Len(instructions) |-> SolTransferOf(instructions[k])])

\* the value one iteration of the loop of calculate_priority_fee assigns, if any
PriorityFeeOf(instruction) ==
    LET program_name == get_program_name(instruction.program_id)
    IN  IF program_name = Some("Compute Budget")
        THEN IF instruction.instruction_type = "SetComputeUnitPrice"
             THEN LET decoded == Bs58Decode(FirstToken(instruction.data))
                  IN  IF decoded.ok
                      THEN IF Len(decoded.val) >= 9
                           THEN Some(u64_from_le_bytes(SubSeq(decoded.val, 2, 9)))
                           ELSE None
                      ELSE None
             ELSE None
        ELSE None

RECURSIVE PriorityFeeLoop(_, _)
PriorityFeeLoop(instructions, priority_fee) ==
    IF instructions = <<>> THEN priority_fee
    ELSE LET fee == PriorityFeeOf(Head(instructions))
         IN  PriorityFeeLoop(Tail(instructions), IF fee # None THEN fee ELSE priority_fee)

calculate_priority_fee(instructions) == PriorityFeeLoop(instructions, None)

\* str::parse::<u64>().ok(): an optional '+' and at least one decimal digit
RECURSIVE DecimalValue(_, _)
DecimalValue(s, acc) ==
    IF Len(s) = 0 THEN acc
    ELSE DecimalValue(Tail(s),
                      10 * acc + (CHOOSE d \in 0..9 : ToString(d) = CharAt(s, 1)))

parse_u64(s) ==
    LET digits == IF Len(s) > 0 /\ CharAt(s, 1) = "+" THEN Tail(s) ELSE s
    IN  IF Len(digits) > 0
           /\ \A i \in 1..Len(digits) : \E d \in 0..9 : ToString(d) = CharAt(digits, i)
        THEN Some(DecimalValue(digits, 0))
        ELSE None

\* instructions.iter().filter(Compute Budget).filter_map(SetComputeUnitLimit).next()
MaxComputeUnits(instructions) ==
    LET found ==
            FilterSome([k \in 1..Len(instructions) |->
                IF get_program_name(instructions[k].program_id) = Some("Compute Budget")
                THEN IF Contains(instructions[k].instruction_type, "SetComputeUnitLimit")
                     THEN parse_u64(instructions[k].data)
                     ELSE None
                ELSE None])
    IN  IF found = <<>> THEN None ELSE Some(Head(found))

(***************************************************************************)
(* client.rs: the Account Resolver and the Transaction Assembler.          *)
(***************************************************************************)
\* account_keys: the key strings of the message that parse as public keys
AccountKeys(t) ==
    IF ~IsJson(t) THEN <<>>
    ELSE LET message == t.transaction.message
         IN  FilterSome([k \in 1..Len(message.account_keys) |->
                 ResultOk(Pubkey_from_str(IF message.kind = "Raw"
                                          THEN message.account_keys[k]
                                          ELSE message.account_keys[k].pubkey))])

\* the signer flag of raw position idx (0-based)
RawIsSigner(idx, header) == idx < header.num_required_signatures

\* a writable rule that forgets to take the signers off the unsigned count
RawIsWritableNoSigners(idx, header, total) ==
    LET num_required_signatures == header.num_required_signatures
        num_writable_signed ==
            saturating_sub(num_required_signatures, header.num_readonly_signed_accounts)
        num_writable_unsigned ==
            saturating_sub(total, header.num_readonly_unsigned_accounts)
    IN  (idx < num_writable_signed)
        \/ (idx >= num_required_signatures
            /\ idx < num_required_signatures + num_writable_unsigned)

\* the writable flag of raw position idx (0-based) in a list of `total` keys
RawIsWritable(idx, header, total) ==
    LET num_required_signatures == header.num_required_signatures
        num_writable_signed ==
            saturating_sub(num_required_signatures, header.num_readonly_signed_accounts)
        num_writable_unsigned ==
            saturating_sub(saturating_sub(total, num_required_signatures),
                           header.num_readonly_unsigned_accounts)
    IN  (idx < num_writable_signed)
        \/ (idx >= num_required_signatures
            /\ idx < num_required_signatures + num_writable_unsigned)

\* the top-level account list of a Raw message
RawAccounts(raw_msg, meta) ==
    FilterSome([k \in 1..Len(raw_msg.account_keys) |->
        LET idx == k - 1
            pubkey == Pubkey_from_str(raw_msg.account_keys[k])
        IN  IF ~pubkey.ok THEN None
            ELSE Some(AccountMeta(pubkey.val,
                                  RawIsSigner(idx, raw_msg.header),
                                  RawIsWritable(idx, raw_msg.header, Len(raw_msg.account_keys)),
                                  Get(meta.pre_balances, idx),
                                  Get(meta.post_balances, idx),
                                  None))])

\* an account list whose balances are taken at the position of the account in
\* the list built, not at its position in the message
ParsedAccountsByOutputPosition(parsed_msg, meta) ==
    LET kept == SelectSeq(parsed_msg.account_keys,
                          LAMBDA parsed_acc : Pubkey_from_str(parsed_acc.pubkey).ok)
    IN  [n \in 1..Len(kept) |->
            AccountMeta(Pubkey_from_str(kept[n].pubkey).val, kept[n].signer, kept[n].writable,
                        Get(meta.pre_balances, n - 1),
                        Get(meta.post_balances, n - 1),
                        None)]

\* the top-level account list of a Parsed message
ParsedAccounts(parsed_msg, meta) ==
    FilterSome([k \in 1..Len(parsed_msg.account_keys) |->
        LET idx == k - 1
            parsed_acc == parsed_msg.account_keys[k]
            pubkey == Pubkey_from_str(parsed_acc.pubkey)
        IN  IF ~pubkey.ok THEN None
            ELSE Some(AccountMeta(pubkey.val, parsed_acc.signer, parsed_acc.writable,
                                  Get(meta.pre_balances, idx),
                                  Get(meta.post_balances, idx),
                                  None))])

Accounts(t, meta) ==
    IF ~IsJson(t) THEN <<>>
    ELSE IF t.transaction.message.kind = "Raw"
    THEN RawAccounts(t.transaction.message, meta)
    ELSE ParsedAccounts(t.transaction.message, meta)

parse_transaction(t, signature) ==
    IF t.transaction.meta = None THEN Err("No transaction metadata")
    ELSE LET meta == t.transaction.meta.some
             status == IF meta.err # None THEN [failed |-> meta.err.some]
                       ELSE [success |-> TRUE]
             account_keys == AccountKeys(t)
             instructions == parse_instructions(t, account_keys)
         IN  IF ~instructions.ok THEN instructions
             ELSE Ok([signature |-> signature,
                          slot |-> t.slot,
                          block_time |-> t.block_time,
                          fee |-> meta.fee,
                          status |-> status,
                          instructions |-> instructions.val,
                          accounts |-> Accounts(t, meta),
                          logs |-> IF meta.log_messages = None THEN <<>>
                                   ELSE meta.log_messages.some,
                          compute_units_consumed |-> meta.compute_units_consumed,
                          version |-> t.transaction.version,
                          token_transfers |->
                              parse_token_transfers_from_logs(meta.log_messages, account_keys),
                          sol_transfers |-> parse_sol_transfers(instructions.val),
                          priority_fee |-> calculate_priority_fee(instructions.val),
                          max_compute_units |-> MaxComputeUnits(instructions.val)])

\* the local _inner_instructions of parse_transaction, when the call gets that far
InnerInstructionsOf(t) ==
    IF t.transaction.meta = None THEN None
    ELSE IF ~parse_instructions(t, AccountKeys(t)).ok THEN None
    ELSE Some(parse_inner_instructions(t.transaction.meta.some.inner_instructions,
                                       AccountKeys(t)))

(***************************************************************************)
(* The records the RPC node can return (the inputs of parse_transaction).  *)
(***************************************************************************)
MaxHeader == 3

MaxAccounts == 3

MaxOpcode == 22

MaxInstr == 2

MaxGroups == 2

SystemId == "11111111111111111111111111111111"

TokenId == "TokenkegQfeZyiNwAJbNbGKPFXCWuBvf9Ss623VQ5DA"

Token2022Id == "TokenzQdBNbLqP5VEhdkAS6EPFLC1PHnBqCQbphWkTg"

ATokenId == "ATokenGPvbdGVxr1b2hvZbsiqW5xWH25efTNsLJA8knL"

ComputeBudgetId == "ComputeBudget111111111111111111111111111111"

\* a program that is not in the registry (SPL Memo)
MemoId == "MemoSq4gqABAXKb96qnH8TysNcWxMyWCqXgDLGmfcHr"

AddrA == "SysvarRent111111111111111111111111111111111"

AddrB == "SysvarC1ock11111111111111111111111111111111"

AddrC == "So11111111111111111111111111111111111111112"

\* a key string that is no public key
BadKey == "not-a-pubkey"

\* payloads: a System transfer of 1000000000 lamports (12 bytes), of 5 lamports,
\* one cut to 11 bytes; SetComputeUnitPrice 1000 and 7 (9 bytes), one cut to 8
\* bytes; a 12-byte payload whose first byte is 3; SetComputeUnitLimit 200000
Transfer1e9 == "3Bxs3zzLZLuLQEYX"

Transfer5 == "3Bxs41hAcYbghSB9"

Transfer11Bytes == "VmNmBexxBhQGKy"

Price1000 == "3tGNFMqHiozw"

Price7 == "3EdUJnbcGFLs"

Price8Bytes == "WNQQWpGEsq"

Byte3Len12 == "4HSo5WczjnNyp8bR"

Limit200000 == "Fj2Eoy"

\* the base58 text of the single byte b (b < 58)
OneByte(b) == Base58Alphabet[b + 1]

Compiled(program_id_index, accounts, data) ==
    [kind |-> "Compiled", program_id_index |-> program_id_index,
     accounts |-> accounts, data |-> data]

ParsedInstr(program_id, parsed) ==
    [kind |-> "Parsed", program_id |-> program_id, parsed |-> parsed]

PartiallyDecoded(program_id, accounts, data) ==
    [kind |-> "PartiallyDecoded", program_id |-> program_id,
     accounts |-> accounts, data |-> data]

JStr(s) == [j |-> "str", s |-> s]

JNum(n) == [j |-> "num", n |-> n]

JObj(es) == [j |-> "obj", o |-> es]

Header(s, rs, ru) ==
    [num_required_signatures |-> s, num_readonly_signed_accounts |-> rs,
     num_readonly_unsigned_accounts |-> ru]

Meta(inner, logs) ==
    [err |-> None, fee |-> 5000, pre_balances |-> <<100, 200>>,
     post_balances |-> <<95, 205, 1>>, inner_instructions |-> inner,
     log_messages |-> logs, compute_units_consumed |-> Some(150)]

Record(meta, encoding, message) ==
    [slot |-> 42, block_time |-> Some(1700000000),
     transaction |-> [meta |-> meta, encoding |-> encoding, message |-> message,
                      version |-> None]]

RawMessage(account_keys, header, instructions) ==
    [kind |-> "Raw", account_keys |-> account_keys, header |-> header,
     instructions |-> instructions]

ParsedMessage(account_keys, instructions) ==
    [kind |-> "Parsed", account_keys |-> account_keys, instructions |-> instructions]

RawRecord(account_keys, header, instructions, inner) ==
    Record(Some(Meta(inner, Some(<<"Program log: hi">>))), "Json",
           RawMessage(account_keys, header, instructions))

\* sequences over a set, of length at most n
SeqsUpTo(S, n) == UNION {[1..k -> S] : k \in 0..n}

\* family 1: headers against account lists, some with a key that does not parse
KeyPool == <<AddrA, AddrB, AddrC, MemoId, SystemId>>

KeyList(n) == [k \in 1..n |-> KeyPool[((k - 1) % Len(KeyPool)) + 1]]

KeyLists ==
    {KeyList(n) : n \in 0..MaxAccounts}
    \cup {[KeyList(n) EXCEPT ![2] = BadKey] : n \in 2..MaxAccounts}

HeaderRecords ==
    {RawRecord(keys, Header(s, rs, ru), <<>>, None) :
        keys \in KeyLists, s \in 0..MaxHeader, rs \in 0..MaxHeader, ru \in 0..MaxHeader}

\* family 2: one compiled instruction per program and payload
ClassifierPrograms == {SystemId, TokenId, Token2022Id, ComputeBudgetId, ATokenId, MemoId}

ClassifierPayloads ==
    {OneByte(b) : b \in 0..MaxOpcode}
    \cup {"", "0", "3 4", Transfer1e9, Price1000, Limit200000}

ClassifierRecords ==
    {RawRecord(<<AddrA, AddrB, p>>, Header(1, 0, 1), <<Compiled(2, <<0, 1>>, d)>>, None) :
        p \in ClassifierPrograms, d \in ClassifierPayloads}

\* family 2b: one instruction of every program of the registry, of the program
\* at the canonical Compute Budget address and of two programs outside it
RegistryPrograms ==
    {KNOWN_PROGRAMS[i][1] : i \in 1..Len(KNOWN_PROGRAMS)} \cup {ComputeBudgetId, MemoId, AddrC}

RegistryRecords ==
    {RawRecord(<<AddrA, AddrB, p>>, Header(1, 0, 1), <<Compiled(2, <<0, 1>>, OneByte(0))>>, None) :
        p \in RegistryPrograms}

\* family 2c: one compiled instruction over a key list in which one string does
\* not parse, before, between or after the keys the instruction refers to
AlignmentKeyLists ==
    {<<BadKey, AddrA, AddrB, SystemId>>,
     <<AddrA, BadKey, AddrB, SystemId>>,
     <<AddrA, AddrB, SystemId, BadKey>>}

AlignmentRecords ==
    {RawRecord(keys, Header(1, 0, 1), <<Compiled(p, accounts, Transfer5)>>, None) :
        keys \in AlignmentKeyLists, p \in 0..3, accounts \in {<<0, 1>>, <<2, 0>>, <<3, 1>>}}

\* family 3: lists of compiled instructions over the keys below
ExtractKeys == <<AddrA, AddrB, SystemId, ComputeBudgetId, TokenId>>

CompiledPool ==
    {Compiled(2, <<0, 1>>, Transfer1e9),
     Compiled(2, <<1, 0>>, Transfer5),
     Compiled(2, <<0, 1>>, Transfer11Bytes),
     Compiled(2, <<0, 9>>, Transfer5),
     Compiled(3, <<>>, Price1000),
     Compiled(3, <<0>>, Price7),
     Compiled(3, <<>>, Price8Bytes),
     Compiled(4, <<0, 1>>, Byte3Len12),
     Compiled(2, <<0, 1>>, OneByte(7)),
     Compiled(4, <<0, 1>>, OneByte(7)),
     Compiled(2, <<1, 9, 1, 0>>, Transfer5),
     Compiled(9, <<0, 1>>, Transfer5)}

ExtractRecords ==
    {RawRecord(ExtractKeys, Header(1, 0, 3), instrs, None) :
        instrs \in SeqsUpTo(CompiledPool, MaxInstr)}

\* family 4: inner instruction groups
InnerGroupPool ==
    {[index |-> 0, instructions |-> <<Compiled(2, <<1, 0>>, Transfer5)>>],
     [index |-> 0, instructions |-> <<Compiled(9, <<0>>, Transfer5),
                                      Compiled(3, <<>>, Price7)>>],
     [index |-> 1, instructions |->
         <<PartiallyDecoded(MemoId, <<AddrA>>, Transfer5),
           Compiled(2, <<0, 1>>, Transfer1e9)>>]}

InnerRecords ==
    {RawRecord(ExtractKeys, Header(1, 0, 3), instrs, Some(groups)) :
        instrs \in {<<>>, <<Compiled(2, <<0, 1>>, Transfer1e9)>>,
                    <<Compiled(9, <<>>, Price7)>>},
        groups \in SeqsUpTo(InnerGroupPool, MaxGroups)}

\* family 5: pre-parsed messages
ParsedKeys ==
    <<[pubkey |-> AddrA, signer |-> TRUE, writable |-> TRUE],
      [pubkey |-> BadKey, signer |-> FALSE, writable |-> TRUE],
      [pubkey |-> AddrB, signer |-> FALSE, writable |-> TRUE],
      [pubkey |-> SystemId, signer |-> FALSE, writable |-> FALSE]>>

ParsedPool ==
    {ParsedInstr(SystemId, JObj(<< <<"info", JObj(<< <<"destination", JStr(AddrB)>>,
                                                     <<"lamports", JNum(5)>>,
                                                     <<"source", JStr(AddrA)>> >>)>>,
                                   <<"type", JStr("transfer")>> >>)),
     ParsedInstr(SystemId, JObj(<< <<"info", JObj(<< <<"destination", JStr(AddrB)>>,
                                                     <<"source", JStr(AddrA)>> >>)>>,
                                   <<"type", JStr("Transfer")>> >>)),
     ParsedInstr(SystemId, JObj(<< <<"info", JObj(<< <<"newAccount", JStr(AddrB)>>,
                                                     <<"owner", JStr(TokenId)>>,
                                                     <<"source", JStr(AddrA)>> >>)>>,
                                   <<"type", JStr("createAccount")>> >>)),
     ParsedInstr(BadKey, JObj(<< <<"info", JNum(12)>>, <<"type", JStr("Transfer")>> >>)),
     ParsedInstr(MemoId, JStr("hello")),
     ParsedInstr(MemoId, JObj(<< <<"type", JStr("memo")>> >>)),
     ParsedInstr(MemoId, JObj(<< <<"info", JStr("hello")>>, <<"type", JNum(3)>> >>)),
     ParsedInstr(TokenId, JObj(<< <<"info", JObj(<< <<"amount", JStr("5")>>,
                                                    <<"authority", JStr(AddrA)>>,
                                                    <<"decimals", JNum(6)>>,
                                                    <<"destination", JStr(AddrB)>>,
                                                    <<"newAuthority", JStr(AddrC)>>,
                                                    <<"source", JStr(AddrA)>> >>)>>,
                                  <<"type", JStr("transferChecked")>> >>)),
     ParsedInstr(ComputeBudgetId, JObj(<< <<"info", JNum(200000)>>,
                                          <<"type", JStr("SetComputeUnitLimit")>> >>)),
     ParsedInstr(ComputeBudgetId, JObj(<< <<"info", JNum(1400000)>>,
                                          <<"type", JStr("SetComputeUnitLimit")>> >>)),
     PartiallyDecoded(MemoId, <<AddrA, BadKey, AddrB>>, Transfer1e9),
     Compiled(2, <<0, 1>>, Transfer1e9),
     Compiled(3, <<0>>, Transfer5)}

ParsedRecords ==
    {Record(Some(Meta(None, None)), "Json", ParsedMessage(ParsedKeys, instrs)) :
        instrs \in SeqsUpTo(ParsedPool, MaxInstr)}

\* family 6: missing metadata, other encodings, absent optional fields
DegradedRecords ==
    {Record(meta, encoding,
            RawMessage(ExtractKeys, Header(1, 0, 3), <<Compiled(2, <<0, 1>>, Transfer1e9)>>)) :
        meta \in {None}
                 \cup {Some([Meta(inner, logs) EXCEPT !.compute_units_consumed = cu,
                                                     !.err = err]) :
                          inner \in {None, Some(<<>>)},
                          logs \in {None, Some(<<"Program log: Transfer amount: 5",
                                                 "Token:Transfer(5, 9)">>)},
                          cu \in {None, Some(150)},
                          err \in {None, Some("InstructionError(0, Custom(1))")}},
        encoding \in {"Json", "Binary"}}

RpcRecords ==
    HeaderRecords \cup ClassifierRecords \cup RegistryRecords \cup AlignmentRecords
    \cup ExtractRecords
    \cup InnerRecords
    \cup ParsedRecords \cup DegradedRecords

(***************************************************************************)
(* app.rs, events.rs: the application state and the key-event handlers.    *)
(*                                                                         *)
(* A Rust String is modelled by the sequence of its characters; positions  *)
(* of the code are byte offsets, so the model converts between the two     *)
(* with the encoded width of every character (char::len_utf8).  A KeyEvent *)
(* is [code, c, modifiers]; a handler returns [app |-> the App after the   *)
(* call, outcome |-> "running" for Ok(false), "quit" for Ok(true) and      *)
(* "panic" when the call panics].                                          *)
(***************************************************************************)
MaxInput == 2

MaxScroll == 11

\* char::len_utf8 on the characters the model types
len_utf8(c) == IF c = "é" THEN 2 ELSE 1

\* the byte offset of the end of the first i characters of s
ByteOffset(s, i) == i + Cardinality({j \in 1..i : len_utf8(CharAt(s, j)) = 2})

\* String::len: the length in bytes
ByteLen(s) == ByteOffset(s, Len(s))

\* str::is_char_boundary
is_char_boundary(s, idx) == \E i \in 0..Len(s) : ByteOffset(s, i) = idx

\* the number of characters before the boundary idx
CharsBefore(s, idx) == CHOOSE i \in 0..Len(s) : ByteOffset(s, i) = idx

\* String::insert: panics when idx is not a char boundary
String_insert(s, idx, c) ==
    IF ~is_char_boundary(s, idx) THEN Err("panic")
    ELSE LET i == CharsBefore(s, idx)
         IN  Ok(SubSeq(s, 1, i) \o c \o SubSeq(s, i + 1, Len(s)))

\* String::remove: panics when idx is not a char boundary or is the end
String_remove(s, idx) ==
    IF ~is_char_boundary(s, idx) \/ idx >= ByteLen(s) THEN Err("panic")
    ELSE LET i == CharsBefore(s, idx)
         IN  Ok(SubSeq(s, 1, i) \o SubSeq(s, i + 2, Len(s)))

\* str::trim
Trim(s) ==
    LET kept == {i \in 1..Len(s) : ~IsWhitespace(CharAt(s, i))}
    IN  IF kept = {} THEN ""
        ELSE SubSeq(s, CHOOSE i \in kept : \A j \in kept : i <= j,
                       CHOOSE i \in kept : \A j \in kept : i >= j)

\* Signature::from_str: ParseSignatureError::WrongSize or ::Invalid
Signature_from_str(s) ==
    IF ByteLen(s) > 88 THEN Err("WrongSize")
    ELSE LET d == Bs58Decode(s)
         IN  IF ~d.ok THEN Err("Invalid")
             ELSE IF Len(d.val) # 64 THEN Err("WrongSize")
             ELSE Ok(d.val)

\* solana/mod.rs: Network::next and Network::prev
Network_next(n) ==
    CASE n = "Mainnet" -> "Devnet"
      [] n = "Devnet" -> "Testnet"
      [] n = "Testnet" -> "Mainnet"

Network_prev(n) ==
    CASE n = "Mainnet" -> "Testnet"
      [] n = "Devnet" -> "Mainnet"
      [] n = "Testnet" -> "Devnet"

\* app.rs: TransactionTab::next and TransactionTab::prev
TransactionTab_next(t) ==
    CASE t = "Overview" -> "Accounts"
      [] t = "Accounts" -> "Instructions"
      [] t = "Instructions" -> "TokenTransfers"
      [] t = "TokenTransfers" -> "Logs"
      [] t = "Logs" -> "Overview"

TransactionTab_prev(t) ==
    CASE t = "Overview" -> "Logs"
      [] t = "Accounts" -> "Overview"
      [] t = "Instructions" -> "Accounts"
      [] t = "TokenTransfers" -> "Instructions"
      [] t = "Logs" -> "TokenTransfers"

\* app.rs: enum Screen; the message is "" except on Error
Screen(kind) == [kind |-> kind, message |-> ""]

Screen_Error(message) == [kind |-> "Error", message |-> message]

\* App::new
App_new ==
    [screen |-> Screen("Input"),
     input |-> "",
     input_cursor |-> 0,
     selected_network |-> "Mainnet",
     error_message |-> None,
     transaction_data |-> None,
     account_data |-> None,
     txn_scroll |-> 0,
     account_scroll |-> 0,
     transaction_tab |-> "Overview"]

\* App::get_input_type
get_input_type(self) ==
    LET trimmed == Trim(self.input)
    IN  IF ByteLen(trimmed) \in {87, 88} /\ Signature_from_str(trimmed).ok
        THEN "Transaction"
        ELSE IF Pubkey_from_str(trimmed).ok THEN "Account"
        ELSE "Unknown"

Running(self) == [app |-> self, outcome |-> "running"]

Quit(self) == [app |-> self, outcome |-> "quit"]

Panic(self) == [app |-> self, outcome |-> "panic"]

\* App::insert_char
insert_char(self, c) ==
    LET inserted == String_insert(self.input, self.input_cursor, c)
    IN  IF ~inserted.ok THEN Panic(self)
        ELSE Running([self EXCEPT !.input = inserted.val,
                                 !.input_cursor = self.input_cursor + 1])

\* App::delete_char
delete_char(self) ==
    IF self.input_cursor > 0
    THEN LET removed == String_remove(self.input, self.input_cursor - 1)
         IN  IF ~removed.ok THEN Panic(self)
             ELSE Running([self EXCEPT !.input = removed.val,
                                      !.input_cursor = self.input_cursor - 1])
    ELSE Running(self)

\* App::move_cursor_left
move_cursor_left(self) ==
    IF self.input_cursor > 0
    THEN [self EXCEPT !.input_cursor = self.input_cursor - 1]
    ELSE self

\* App::move_cursor_right
move_cursor_right(self) ==
    IF self.input_cursor < ByteLen(self.input)
    THEN [self EXCEPT !.input_cursor = self.input_cursor + 1]
    ELSE self

\* App::clear_input
clear_input(self) == [self EXCEPT !.input = "", !.input_cursor = 0]

\* a reset that keeps the data of the last query
reset_keeping_data(self) ==
    [clear_input(self) EXCEPT !.screen = Screen("Input"),
                             !.error_message = None,
                             !.txn_scroll = 0,
                             !.account_scroll = 0,
                             !.transaction_tab = "Overview"]

\* a reset that builds a new App
reset_to_new(self) == App_new

\* App::reset
reset(self) ==
    [clear_input(self) EXCEPT !.screen = Screen("Input"),
                             !.error_message = None,
                             !.transaction_data = None,
                             !.account_data = None,
                             !.txn_scroll = 0,
                             !.account_scroll = 0,
                             !.transaction_tab = "Overview"]

\* crossterm: KeyEvent { code, modifiers }; c is the character of KeyCode::Char
KeyEvent(code, c, modifiers) == [code |-> code, c |-> c, modifiers |-> modifiers]

IsCtrlC(key) == key.code = "Char" /\ key.c = "c" /\ key.modifiers = "CONTROL"

InvalidInputMessage ==
    "Invalid input. Must be a transaction signature (88 chars) or a public key (32-44 chars)"

\* client.rs: fetch_transaction; reply is what the RPC node answers ("found" or
\* "failed"), data stands for the TransactionData that parse_transaction builds
fetch_transaction(signature_str, network, reply) ==
    LET signature == Signature_from_str(signature_str)
    IN  IF ~signature.ok THEN Err(signature.err)
        ELSE IF reply = "failed" THEN Err("rpc")
        ELSE Ok([signature |-> signature_str, network |-> network])

\* client.rs: fetch_account; data stands for the AccountData of the address
fetch_account(address_str, network, reply) ==
    LET pubkey == Pubkey_from_str(address_str)
    IN  IF ~pubkey.ok THEN Err(pubkey.err)
        ELSE IF reply = "failed" THEN Err("rpc")
        ELSE Ok([pubkey |-> address_str, network |-> network])

\* a submit_query that leaves the Loading screen in place when the fetch fails
submit_query_leaving_loading(self, reply) ==
    LET input_type == get_input_type(self)
        loading == [self EXCEPT !.screen = Screen("Loading")]
        fetched == IF input_type = "Transaction"
                   THEN fetch_transaction(self.input, self.selected_network, reply)
                   ELSE fetch_account(self.input, self.selected_network, reply)
    IN  IF input_type = "Unknown" \/ ~fetched.ok THEN Running(loading)
        ELSE IF input_type = "Transaction"
        THEN Running([loading EXCEPT !.transaction_data = Some(fetched.val),
                                     !.screen = Screen("Transaction")])
        ELSE Running([loading EXCEPT !.account_data = Some(fetched.val),
                                     !.screen = Screen("Account")])

\* events.rs: submit_query; loading is the App after `app.screen = Screen::Loading`
submit_query(self, reply) ==
    LET input_type == get_input_type(self)
        input == self.input
        network == self.selected_network
        loading == [self EXCEPT !.screen = Screen("Loading")]
    IN  CASE input_type = "Transaction" ->
                 LET fetched == fetch_transaction(input, network, reply)
                 IN  IF fetched.ok
                     THEN Running([loading EXCEPT !.transaction_data = Some(fetched.val),
                                                  !.screen = Screen("Transaction")])
                     ELSE Running([loading EXCEPT !.screen =
                              Screen_Error("Failed to fetch transaction: " \o fetched.err)])
          [] input_type = "Account" ->
                 LET fetched == fetch_account(input, network, reply)
                 IN  IF fetched.ok
                     THEN Running([loading EXCEPT !.account_data = Some(fetched.val),
                                                  !.screen = Screen("Account")])
                     ELSE Running([loading EXCEPT !.screen =
                              Screen_Error("Failed to fetch account: " \o fetched.err)])
          [] input_type = "Unknown" ->
                 Running([loading EXCEPT !.screen = Screen_Error(InvalidInputMessage)])

\* a handler of the input screen whose Enter does not classify the input
handle_input_screen_unchecked(self, key) ==
    CASE IsCtrlC(key) -> Quit(self)
      [] key.code = "Esc" -> Quit(self)
      [] key.code = "Char" /\ ~IsCtrlC(key) -> insert_char(self, key.c)
      [] key.code = "Backspace" -> delete_char(self)
      [] key.code = "Left" -> Running(move_cursor_left(self))
      [] key.code = "Right" -> Running(move_cursor_right(self))
      [] key.code = "Enter" ->
             IF self.input # ""
             THEN Running([self EXCEPT !.screen = Screen("NetworkSelection")])
             ELSE Running(self)
      [] OTHER -> Running(self)

\* events.rs: handle_input_screen
handle_input_screen(self, key) ==
    CASE IsCtrlC(key) -> Quit(self)
      [] key.code = "Esc" -> Quit(self)
      [] key.code = "Char" /\ ~IsCtrlC(key) -> insert_char(self, key.c)
      [] key.code = "Backspace" -> delete_char(self)
      [] key.code = "Left" -> Running(move_cursor_left(self))
      [] key.code = "Right" -> Running(move_cursor_right(self))
      [] key.code = "Enter" ->
             IF self.input # ""
             THEN IF get_input_type(self) = "Unknown"
                  THEN Running([self EXCEPT !.screen = Screen_Error(InvalidInputMessage)])
                  ELSE Running([self EXCEPT !.screen = Screen("NetworkSelection")])
             ELSE Running(self)
      [] OTHER -> Running(self)

\* events.rs: handle_network_selection_screen
handle_network_selection_screen(self, key, reply) ==
    CASE IsCtrlC(key) -> Quit(self)
      [] key.code \in {"Esc", "Backspace"} -> Running([self EXCEPT !.screen = Screen("Input")])
      [] key.code \in {"Left", "Up"} ->
             Running([self EXCEPT !.selected_network = Network_prev(self.selected_network)])
      [] key.code \in {"Right", "Down"} ->
             Running([self EXCEPT !.selected_network = Network_next(self.selected_network)])
      [] key.code = "Enter" -> submit_query(self, reply)
      [] OTHER -> Running(self)

\* events.rs: handle_transaction_screen
handle_transaction_screen(self, key) ==
    CASE IsCtrlC(key) -> Quit(self)
      [] key.code = "Esc" -> Quit(self)
      [] key.code = "Char" /\ ~IsCtrlC(key) /\ key.c \in {"r", "R"} -> Running(reset(self))
      [] key.code = "Up" ->
             Running(IF self.txn_scroll > 0
                     THEN [self EXCEPT !.txn_scroll = self.txn_scroll - 1] ELSE self)
      [] key.code = "Down" -> Running([self EXCEPT !.txn_scroll = self.txn_scroll + 1])
      [] key.code = "PageUp" ->
             Running([self EXCEPT !.txn_scroll = saturating_sub(self.txn_scroll, 10)])
      [] key.code = "PageDown" -> Running([self EXCEPT !.txn_scroll = self.txn_scroll + 10])
      [] key.code = "Home" -> Running([self EXCEPT !.txn_scroll = 0])
      [] key.code = "Tab" ->
             Running([self EXCEPT !.transaction_tab = TransactionTab_next(self.transaction_tab),
                                 !.txn_scroll = 0])
      [] key.code = "BackTab" ->
             Running([self EXCEPT !.transaction_tab = TransactionTab_prev(self.transaction_tab),
                                 !.txn_scroll = 0])
      [] OTHER -> Running(self)

\* events.rs: handle_account_screen
handle_account_screen(self, key) ==
    CASE IsCtrlC(key) -> Quit(self)
      [] key.code = "Esc" -> Quit(self)
      [] key.code = "Char" /\ ~IsCtrlC(key) /\ key.c \in {"r", "R"} -> Running(reset(self))
      [] key.code = "Up" ->
             Running(IF self.account_scroll > 0
                     THEN [self EXCEPT !.account_scroll = self.account_scroll - 1] ELSE self)
      [] key.code = "Down" -> Running([self EXCEPT !.account_scroll = self.account_scroll + 1])
      [] key.code = "PageUp" ->
             Running([self EXCEPT !.account_scroll = saturating_sub(self.account_scroll, 10)])
      [] key.code = "PageDown" ->
             Running([self EXCEPT !.account_scroll = self.account_scroll + 10])
      [] key.code = "Home" -> Running([self EXCEPT !.account_scroll = 0])
      [] OTHER -> Running(self)

\* events.rs: handle_error_screen
handle_error_screen(self, key) ==
    CASE IsCtrlC(key) -> Quit(self)
      [] \/ key.code = "Char" /\ ~IsCtrlC(key) /\ key.c \in {"r", "R"}
         \/ key.code \in {"Enter", "Esc"} -> Running(reset(self))
      [] OTHER -> Running(self)

\* events.rs: handle_key_event
handle_key_event(self, key, reply) ==
    CASE self.screen.kind = "Input" -> handle_input_screen(self, key)
      [] self.screen.kind = "NetworkSelection" ->
             handle_network_selection_screen(self, key, reply)
      [] self.screen.kind = "Loading" -> Running(self)
      [] self.screen.kind = "Transaction" -> handle_transaction_screen(self, key)
      [] self.screen.kind = "Account" -> handle_account_screen(self, key)
      [] self.screen.kind = "Error" -> handle_error_screen(self, key)

\* the characters the user types, the modifiers and the other keys
TypedChars == {"q", "r", "R", "c", "é", " ", "1", "2"}

Modifiers == {"NONE", "CONTROL"}

OtherCodes ==
    {"Esc", "Backspace", "Left", "Right", "Up", "Down", "Enter",
     "PageUp", "PageDown", "Home", "Tab", "BackTab", "F1"}

Keys ==
    {KeyEvent("Char", c, m) : c \in TypedChars, m \in Modifiers}
    \cup {KeyEvent(code, "", "NONE") : code \in OtherCodes}

Replies == {"found", "failed"}

\* the queries the user types in full: an address (32 bytes) and a signature of
\* 88 characters (64 bytes)
TypedSignature ==
    "2222222222222222222222222222222222222222222222222222222222222222222222222222222222222222"

TypedQueries == {SystemId, TypedSignature}

\* s is the beginning of a query
TypedPrefix(s) ==
    \E query \in TypedQueries : Len(s) <= Len(query) /\ s = SubSeq(query, 1, Len(s))

(***************************************************************************)
(* The state machine: a record is fetched, then parse_transaction is       *)
(* applied to it.                                                          *)
(***************************************************************************)
Init ==
    /\ txn \in RpcRecords
    /\ result = None
    /\ inner_instructions = None
    /\ pc = "fetched"
    /\ app = App_new
    /\ outcome = "running"

ParseTransaction ==
    /\ pc = "fetched"
    /\ result' = parse_transaction(txn, "signature")
    /\ inner_instructions' = InnerInstructionsOf(txn)
    /\ pc' = "parsed"
    /\ UNCHANGED <<txn, app, outcome>>

Next == ParseTransaction

Spec == Init /\ [][Next]_vars

(***************************************************************************)
(* The state machine of the interface: handle_key_event is applied to      *)
(* every key pressed until it returns Ok(true) or panics.  The user edits  *)
(* texts of at most MaxInput characters freely; a longer text is one of    *)
(* the queries, typed from left to right with the cursor at its end.  No   *)
(* view is scrolled beyond MaxScroll.                                      *)
(***************************************************************************)
AppInit ==
    /\ txn = None
    /\ result = None
    /\ inner_instructions = None
    /\ pc = "app"
    /\ app = App_new
    /\ outcome = "running"

HandleKeyEvent ==
    /\ pc = "app"
    /\ outcome = "running"
    /\ \E key \in Keys, reply \in Replies :
           \E handled \in {handle_key_event(app, key, reply)} :
               /\ \/ handled.app.input = app.input
                     /\ handled.app.input_cursor = app.input_cursor
                  \/ Len(handled.app.input) <= MaxInput
                  \/ TypedPrefix(handled.app.input)
                     /\ handled.app.input_cursor = ByteLen(handled.app.input)
               /\ handled.app.txn_scroll <= MaxScroll
               /\ handled.app.account_scroll <= MaxScroll
               /\ app' = handled.app
               /\ outcome' = handled.outcome
    /\ UNCHANGED <<txn, result, inner_instructions, pc>>

AppNext == HandleKeyEvent

AppSpec == AppInit /\ [][AppNext]_vars

(***************************************************************************)
(* Properties.                                                             *)
(***************************************************************************)
Parsed == pc = "parsed"

Message == txn.transaction.message

HasMeta == txn.transaction.meta # None

IsRaw == IsJson(txn) /\ Message.kind = "Raw"

IsParsedMessage == IsJson(txn) /\ Message.kind = "Parsed"

\* the key string at raw position idx (0-based) of the message
KeyString(idx) ==
    IF Message.kind = "Raw" THEN Message.account_keys[idx + 1]
    ELSE Message.account_keys[idx + 1].pubkey

KeyParses(idx) == Pubkey_from_str(KeyString(idx)).ok

TotalKeys == Len(Message.account_keys)

\* the position (1-based) in the output list of the account of raw position idx
OutputPosition(idx) == Cardinality({j \in 0..idx : KeyParses(j)})

ClampToZero(x) == IF x > 0 THEN x ELSE 0

\* C1: in a raw message the account of index i is a signer iff
\* i < num_required_signatures, and writable iff i < max(0, signatures -
\* readonly_signed) or signatures <= i < signatures + max(0, total - signatures -
\* readonly_unsigned), also for headers whose counts exceed the list length;
\* header (1,0,1) with 3 accounts gives [signer+writable, writable, readonly].
C1_RoleFlags ==
    (Parsed /\ HasMeta /\ IsRaw /\ result.ok) =>
        LET h == Message.header
            s == h.num_required_signatures
            ws == ClampToZero(s - h.num_readonly_signed_accounts)
            wu == ClampToZero(TotalKeys - s - h.num_readonly_unsigned_accounts)
            accounts == result.val.accounts
        IN  /\ Len(accounts) = Cardinality({j \in 0..(TotalKeys - 1) : KeyParses(j)})
            /\ \A i \in 0..(TotalKeys - 1) :
                  KeyParses(i) =>
                      /\ accounts[OutputPosition(i)].is_signer = (i < s)
                      /\ accounts[OutputPosition(i)].is_writable
                            = ((i < ws) \/ (s <= i /\ i < s + wu))
            /\ (h = Header(1, 0, 1) /\ TotalKeys = 3 /\ Len(accounts) = 3) =>
                  /\ <<accounts[1].is_signer, accounts[1].is_writable>> = <<TRUE, TRUE>>
                  /\ <<accounts[2].is_signer, accounts[2].is_writable>> = <<FALSE, TRUE>>
                  /\ <<accounts[3].is_signer, accounts[3].is_writable>> = <<FALSE, FALSE>>

\* a malformed header (more readonly signers than signers, more signers and
\* readonly non-signers than accounts) over a list with an unparseable key has
\* been resolved: both differences are clamped
C1_Witness ==
    /\ Parsed /\ HasMeta /\ IsRaw /\ result.ok
    /\ TotalKeys = 2
    /\ \E i \in 0..(TotalKeys - 1) : ~KeyParses(i)
    /\ Message.header.num_readonly_signed_accounts > Message.header.num_required_signatures
    /\ Message.header.num_required_signatures
          + Message.header.num_readonly_unsigned_accounts > TotalKeys
    /\ Len(result.val.accounts) = 1
    /\ result.val.accounts[1].is_signer
    /\ ~result.val.accounts[1].is_writable

\* the class of an account: 1 writable signer, 2 readonly signer, 3 writable
\* non-signer, 4 readonly non-signer
RoleClass(a) ==
    IF a.is_signer THEN (IF a.is_writable THEN 1 ELSE 2)
    ELSE (IF a.is_writable THEN 3 ELSE 4)

ValidHeader ==
    /\ Message.header.num_readonly_signed_accounts <= Message.header.num_required_signatures
    /\ Message.header.num_required_signatures + Message.header.num_readonly_unsigned_accounts
          <= TotalKeys

\* C2: for a valid header over a list of at least num_required_signatures
\* accounts, the writable and readonly signers add up to num_required_signatures
\* and the four ranges are contiguous, in the canonical order, and cover every
\* index exactly once.
C2_Partition ==
    (Parsed /\ HasMeta /\ IsRaw /\ result.ok /\ ValidHeader
       /\ \A i \in 0..(TotalKeys - 1) : KeyParses(i)) =>
        LET h == Message.header
            accounts == result.val.accounts
            Count(c) == Cardinality({i \in 1..Len(accounts) : RoleClass(accounts[i]) = c})
        IN  /\ Len(accounts) = TotalKeys
            /\ \A i, j \in 1..Len(accounts) :
                  i <= j => RoleClass(accounts[i]) <= RoleClass(accounts[j])
            /\ Count(1) + Count(2) = h.num_required_signatures
            /\ Count(2) = h.num_readonly_signed_accounts
            /\ Count(4) = h.num_readonly_unsigned_accounts
            /\ Count(1) + Count(2) + Count(3) + Count(4) = TotalKeys

\* a valid header has put three accounts in three different ranges
C2_Witness ==
    /\ Parsed /\ HasMeta /\ IsRaw /\ result.ok /\ ValidHeader
    /\ TotalKeys = 3
    /\ \A i \in 0..(TotalKeys - 1) : KeyParses(i)
    /\ Len(result.val.accounts) = 3
    /\ RoleClass(result.val.accounts[1]) = 1
    /\ RoleClass(result.val.accounts[2]) = 2
    /\ RoleClass(result.val.accounts[3]) = 4

\* the number of keys of the message that parse: the length of account_keys
NumResolved ==
    IF IsJson(txn) THEN Cardinality({i \in 0..(TotalKeys - 1) : KeyParses(i)}) ELSE 0

\* the key string the compiled index n (0-based, n < NumResolved) resolves to
ResolvedKeyString(n) ==
    KeyString(CHOOSE i \in 0..(TotalKeys - 1) : KeyParses(i) /\ OutputPosition(i) = n + 1)

\* the top-level instructions of the record, as the RPC node sent them
TopLevel == IF IsJson(txn) THEN Message.instructions ELSE <<>>

\* a compiled instruction whose program_id_index is out of range
ProgramOutOfRange(ui_instr) ==
    ui_instr.kind = "Compiled" /\ ui_instr.program_id_index >= NumResolved

\* the address of the program of an instruction whose program resolves
ProgramAddress(ui_instr) ==
    IF ui_instr.kind = "Compiled" THEN ResolvedKeyString(ui_instr.program_id_index)
    ELSE ui_instr.program_id

\* the table of the program at a canonical address (<<>>: no table)
CanonicalTable(address) ==
    CASE address = SystemId -> SystemLabels
      [] address \in {TokenId, Token2022Id} -> TokenLabels
      [] address = ComputeBudgetId -> ComputeBudgetLabels
      [] OTHER -> <<>>

\* the label the table of the instruction's program gives its first payload
\* byte, if any
TableLabel(ui_instr) ==
    LET table == CanonicalTable(ProgramAddress(ui_instr))
        decoded == Bs58Decode(ui_instr.data)
    IN  IF decoded.ok
        THEN IF decoded.val # <<>>
             THEN IF decoded.val[1] < Len(table) THEN Some(table[decoded.val[1] + 1])
                  ELSE None
             ELSE None
        ELSE None

\* C3: every compiled instruction addressed to the canonical address of the
\* System, Token, Token-2022 or Compute Budget program whose first payload byte
\* is in the program's table (0..12, 0..20, 0..20, 0..4) is given the label of
\* the table.
C3_OpcodeTable ==
    (Parsed /\ HasMeta /\ IsRaw /\ result.ok) =>
        \A k \in 1..Len(TopLevel) :
            TableLabel(TopLevel[k]) # None =>
                result.val.instructions[k].instruction_type = TableLabel(TopLevel[k]).some

\* the priority fee an instruction of the record supplies: it is addressed to
\* the Compute Budget program, its first payload byte is 3 (SetComputeUnitPrice)
\* and it has at least 9 bytes, of which bytes 1..8 are the value
SuppliedFee(ui_instr) ==
    IF ui_instr.kind = "Compiled" /\ ~ProgramOutOfRange(ui_instr)
    THEN IF ProgramAddress(ui_instr) = ComputeBudgetId
         THEN LET decoded == Bs58Decode(ui_instr.data)
              IN  IF decoded.ok
                  THEN IF Len(decoded.val) >= 9 /\ decoded.val[1] = 3
                       THEN Some(u64_from_le_bytes(SubSeq(decoded.val, 2, 9)))
                       ELSE None
                  ELSE None
         ELSE None
    ELSE None

\* C4: priority_fee is the value of the last Compute Budget SetComputeUnitPrice
\* instruction with a payload of at least 9 bytes (bytes 1..8, little-endian),
\* and None only when there is no such instruction.
C4_PriorityFee ==
    (Parsed /\ HasMeta /\ IsRaw /\ result.ok) =>
        LET suppliers == {k \in 1..Len(TopLevel) : SuppliedFee(TopLevel[k]) # None}
        IN  IF suppliers = {} THEN result.val.priority_fee = None
            ELSE result.val.priority_fee
                    = SuppliedFee(TopLevel[CHOOSE k \in suppliers : \A j \in suppliers : j <= k])

\* the base58 payload of the k-th top-level instruction: the data the RPC node
\* sent for a compiled or partially decoded instruction, the stored text otherwise
PayloadOf(k) ==
    IF TopLevel[k].kind = "Parsed" THEN result.val.instructions[k].data
    ELSE TopLevel[k].data

\* the bytes at offsets 4..11 of a payload as a little-endian integer
AmountAt4(bytes) ==
    bytes[5] + 256 * (bytes[6] + 256 * (bytes[7] + 256 * (bytes[8] + 256 * (bytes[9]
        + 256 * (bytes[10] + 256 * (bytes[11] + 256 * bytes[12]))))))

\* the k-th instruction is a System Program "Transfer" with at least two
\* resolved accounts and a payload of at least 12 bytes
EmitsSolTransfer(k) ==
    LET instruction == result.val.instructions[k]
        decoded == Bs58Decode(PayloadOf(k))
    IN  /\ Pubkey_to_string(instruction.program_id) = SystemId
        /\ instruction.instruction_type = "Transfer"
        /\ Len(instruction.accounts) >= 2
        /\ decoded.ok
        /\ Len(decoded.val) >= 12

\* C5: sol_transfers holds exactly one transfer for every System Program
\* "Transfer" instruction with at least two resolved accounts and a payload of
\* at least 12 bytes, in instruction order, from accounts[0] to accounts[1],
\* with the little-endian amount at offsets 4..11 (opcode 2 followed by
\* 1000000000 gives 1000000000), and nothing for any other instruction.
C5_SolTransfers ==
    (Parsed /\ result.ok) =>
        LET instructions == result.val.instructions
            emitting == {k \in 1..Len(instructions) : EmitsSolTransfer(k)}
            Rank(k) == Cardinality({j \in emitting : j <= k})
            transfers == result.val.sol_transfers
        IN  /\ Len(instructions) = Len(TopLevel)
            /\ Len(transfers) = Cardinality(emitting)
            /\ \A k \in emitting :
                  /\ transfers[Rank(k)].from = instructions[k].accounts[1].pubkey
                  /\ transfers[Rank(k)].to = instructions[k].accounts[2].pubkey
                  /\ transfers[Rank(k)].amount = AmountAt4(Bs58Decode(PayloadOf(k)).val)
                  /\ PayloadOf(k) = Transfer1e9 =>
                        /\ Bs58Decode(PayloadOf(k)).val
                              = <<2, 0, 0, 0, 0, 202, 154, 59, 0, 0, 0, 0>>
                        /\ transfers[Rank(k)].amount = 1000000000

\* two transfers have been emitted in instruction order, the first of 1000000000
\* lamports from the first key to the second, the second of 5 lamports back
C5_Witness ==
    /\ Parsed /\ result.ok /\ IsRaw
    /\ Len(TopLevel) = 2
    /\ EmitsSolTransfer(1) /\ EmitsSolTransfer(2)
    /\ Len(result.val.sol_transfers) = 2
    /\ result.val.sol_transfers[1].amount = 1000000000
    /\ result.val.sol_transfers[2].amount = 5
    /\ result.val.sol_transfers[1].from = result.val.sol_transfers[2].to
    /\ result.val.sol_transfers[1].from # result.val.sol_transfers[1].to

\* C6: the inner instructions are normalized and flattened in group order, and
\* the SOL-transfer, priority-fee and compute-limit extractors run over the
\* top-level instructions followed by the flattened inner instructions.
C6_InnerExtracted ==
    (Parsed /\ result.ok /\ inner_instructions # None) =>
        LET all == result.val.instructions \o inner_instructions.some
        IN  /\ result.val.sol_transfers = parse_sol_transfers(all)
            /\ result.val.priority_fee = calculate_priority_fee(all)
            /\ result.val.max_compute_units = MaxComputeUnits(all)

\* the inner instructions of the record, as the RPC node sent them, group after
\* group
InnerSource ==
    IF ~HasMeta THEN <<>>
    ELSE LET inner == txn.transaction.meta.some.inner_instructions
         IN  IF inner = None THEN <<>>
             ELSE Flatten([g \in 1..Len(inner.some) |-> inner.some[g].instructions])

\* the instruction parse_instructions puts in the place of a compiled
\* instruction it cannot resolve inside a pre-parsed message
Placeholder(ui_instr) ==
    [program_id |-> Repeat(0, 32), program_name |-> None,
     instruction_type |-> "Unknown (Compiled)", data |-> ui_instr.data,
     accounts |-> <<>>, compute_units_consumed |-> None]

C9_NoDangling ==
    (Parsed /\ result.ok) =>
        \A k \in 1..Len(result.val.instructions) :
            \A a \in 1..Len(result.val.instructions[k].accounts) :
                \E j \in 1..Len(result.val.accounts) :
                    result.val.accounts[j].pubkey
                        = result.val.instructions[k].accounts[a].pubkey

RegistryAddresses == {KNOWN_PROGRAMS[i][1] : i \in 1..Len(KNOWN_PROGRAMS)}

\* the program id of a normalized instruction is not an address of the registry
Unregistered(instruction) ==
    Pubkey_to_string(instruction.program_id) \notin RegistryAddresses

\* the `type` field of a semantically parsed instruction, when it is a string
ParsedType(ui_instr) ==
    LET type == JsonGet(ui_instr.parsed, "type")
    IN  IF type = None THEN None ELSE JsonAsStr(type.some)

SuppliedLimit(k) ==
    LET instruction == result.val.instructions[k]
    IN  IF /\ Pubkey_to_string(instruction.program_id) = ComputeBudgetId
           /\ instruction.instruction_type = "SetComputeUnitLimit"
        THEN parse_u64(instruction.data)
        ELSE None

\* C11: max_compute_units is the decimal value of the data of the first Compute
\* Budget instruction classified "SetComputeUnitLimit" whose data parses as a
\* decimal integer, and None only when there is no such instruction.
C11_MaxComputeUnits ==
    (Parsed /\ result.ok) =>
        LET suppliers == {k \in 1..Len(result.val.instructions) : SuppliedLimit(k) # None}
        IN  IF suppliers = {} THEN result.val.max_compute_units = None
            ELSE result.val.max_compute_units
                    = SuppliedLimit(CHOOSE k \in suppliers : \A j \in suppliers : k <= j)

\* the first payload byte of a top-level instruction (None: the payload is not
\* base58 or decodes to nothing)
FirstByte(ui_instr) ==
    LET decoded == Bs58Decode(ui_instr.data)
    IN  IF decoded.ok /\ decoded.val # <<>> THEN Some(decoded.val[1]) ELSE None

\* C12: the classification is scoped by the program: a payload whose first byte
\* is 7 is labelled "MintTo" under the Token Program and "AuthorizeNonceAccount"
\* under the System Program; the opcode alone never chooses the label.
C12_ProgramScoped ==
    (Parsed /\ IsRaw /\ result.ok) =>
        \A k \in 1..Len(TopLevel) :
            (~ProgramOutOfRange(TopLevel[k]) /\ FirstByte(TopLevel[k]) = Some(7)) =>
                /\ ProgramAddress(TopLevel[k]) = TokenId =>
                      result.val.instructions[k].instruction_type = "MintTo"
                /\ ProgramAddress(TopLevel[k]) = SystemId =>
                      result.val.instructions[k].instruction_type = "AuthorizeNonceAccount"

\* one transaction carries the same one-byte payload 7 to the System Program
\* and to the Token Program, and the two instructions got different labels
C12_Witness ==
    /\ Parsed /\ IsRaw /\ result.ok
    /\ Len(TopLevel) = 2
    /\ TopLevel[1].data = TopLevel[2].data
    /\ FirstByte(TopLevel[1]) = Some(7)
    /\ ProgramAddress(TopLevel[1]) = SystemId
    /\ ProgramAddress(TopLevel[2]) = TokenId
    /\ result.val.instructions[1].instruction_type = "AuthorizeNonceAccount"
    /\ result.val.instructions[2].instruction_type = "MintTo"

\* every compiled top-level instruction names a program that resolves
ProgramsResolve == \A k \in 1..Len(TopLevel) : ~ProgramOutOfRange(TopLevel[k])

\* C13: the classifier is total: it answers "Unknown" when the payload is not
\* valid base58, when it decodes to no byte, when its first byte is outside the
\* table of the program, and when the program has no table; it never fails.
C13_TotalClassifier ==
    (Parsed /\ IsRaw /\ HasMeta /\ ProgramsResolve) =>
        /\ result.ok
        /\ Len(result.val.instructions) = Len(TopLevel)
        /\ \A k \in 1..Len(TopLevel) :
              LET table == CanonicalTable(ProgramAddress(TopLevel[k]))
                  byte == FirstByte(TopLevel[k])
              IN  (\/ ~Bs58Decode(TopLevel[k].data).ok
                   \/ Bs58Decode(TopLevel[k].data).val = <<>>
                   \/ table = <<>>
                   \/ byte.some >= Len(table)) =>
                      result.val.instructions[k].instruction_type = "Unknown"

\* the System Program has been sent a payload that is not base58, and the
\* instruction was normalised with the label "Unknown"
C13_Witness ==
    /\ Parsed /\ IsRaw /\ HasMeta /\ ProgramsResolve /\ result.ok
    /\ Len(TopLevel) = 1
    /\ ProgramAddress(TopLevel[1]) = SystemId
    /\ TopLevel[1].data # ""
    /\ ~Bs58Decode(TopLevel[1].data).ok
    /\ result.val.instructions[1].instruction_type = "Unknown"

\* the canonical addresses of the known programs and their display names
CanonicalPrograms ==
    [i \in 1..Len(KNOWN_PROGRAMS) |->
        IF KNOWN_PROGRAMS[i][2] = "Compute Budget"
        THEN <<ComputeBudgetId, "Compute Budget">>
        ELSE KNOWN_PROGRAMS[i]]

\* the display name of the program at a canonical address, None for every
\* other address
CanonicalName(address) ==
    LET hits == {i \in 1..Len(CanonicalPrograms) : CanonicalPrograms[i][1] = address}
    IN  IF hits = {} THEN None ELSE Some(CanonicalPrograms[CHOOSE i \in hits : TRUE][2])

\* C14: the registry is a total lookup: the canonical address of each known
\* program (System, Token, Token-2022, Compute Budget, Stake, Vote and the
\* others of the list) resolves to its display name, every other address to
\* None; observed on the program_name of every instruction whose program id
\* was looked up (all but the placeholders of unresolvable instructions).
C14_RegistryLookup ==
    (Parsed /\ result.ok) =>
        \A k \in 1..Len(TopLevel) :
            ~ProgramOutOfRange(TopLevel[k]) =>
                result.val.instructions[k].program_name
                    = CanonicalName(Pubkey_to_string(result.val.instructions[k].program_id))

\* the balance array entry of message position idx (0-based), None past the end
BalanceAt(balances, idx) ==
    IF idx < Len(balances) THEN Some(balances[idx + 1]) ELSE None

\* C15: in both message encodings the account built from position i of the
\* account list of the message has pre_balance = pre_balances[i] and
\* post_balance = post_balances[i], each None when i is past the end of its
\* array.
C15_BalancesByPosition ==
    (Parsed /\ result.ok /\ IsJson(txn)) =>
        \A i \in 0..(TotalKeys - 1) :
            KeyParses(i) =>
                LET account == result.val.accounts[OutputPosition(i)]
                    meta == txn.transaction.meta.some
                IN  /\ account.pubkey = Pubkey_from_str(KeyString(i)).val
                    /\ account.pre_balance = BalanceAt(meta.pre_balances, i)
                    /\ account.post_balance = BalanceAt(meta.post_balances, i)

\* a pre-parsed message whose second key does not parse has been assembled:
\* its third key is the second account and carries the balances of position 2,
\* no pre-balance and a post-balance, and its fourth key has neither
C15_Witness ==
    /\ Parsed /\ result.ok /\ IsParsedMessage
    /\ TotalKeys = 4
    /\ KeyParses(0) /\ ~KeyParses(1) /\ KeyParses(2) /\ KeyParses(3)
    /\ Len(txn.transaction.meta.some.pre_balances) = 2
    /\ Len(txn.transaction.meta.some.post_balances) = 3
    /\ result.val.accounts[1].pre_balance = Some(txn.transaction.meta.some.pre_balances[1])
    /\ result.val.accounts[2].pre_balance = None
    /\ result.val.accounts[2].post_balance = Some(txn.transaction.meta.some.post_balances[3])
    /\ result.val.accounts[3].post_balance = None

\* the account indices of a compiled instruction that are in range, in their
\* original order
InRangeIndices(ui_instr) == SelectSeq(ui_instr.accounts, LAMBDA n : n < NumResolved)

\* C16: the out-of-range account indices of a compiled instruction are dropped
\* without failing the decoding, and the in-range indices resolve to their
\* pubkeys in their original relative order, duplicates included.
C16_AccountIndices ==
    (Parsed /\ HasMeta /\ IsJson(txn) /\ ProgramsResolve) =>
        /\ result.ok
        /\ \A k \in 1..Len(TopLevel) :
              TopLevel[k].kind = "Compiled" =>
                  LET kept == InRangeIndices(TopLevel[k])
                      accounts == result.val.instructions[k].accounts
                  IN  /\ Len(accounts) = Len(kept)
                      /\ \A n \in 1..Len(kept) :
                            accounts[n].pubkey
                                = Pubkey_from_str(ResolvedKeyString(kept[n])).val

\* an instruction with the account indices 1, 9, 1, 0 over five keys has been
\* normalised: index 9 is gone, and the accounts are those of 1, 1 and 0
C16_Witness ==
    /\ Parsed /\ HasMeta /\ IsRaw /\ ProgramsResolve /\ result.ok
    /\ NumResolved = 5
    /\ Len(TopLevel) >= 1
    /\ TopLevel[1].accounts = <<1, 9, 1, 0>>
    /\ Len(result.val.instructions[1].accounts) = 3
    /\ result.val.instructions[1].accounts[1].pubkey = result.val.accounts[2].pubkey
    /\ result.val.instructions[1].accounts[2].pubkey = result.val.accounts[2].pubkey
    /\ result.val.instructions[1].accounts[3].pubkey = result.val.accounts[1].pubkey

\* the outcome of running parse_transaction once more on the record that was
\* decoded
SecondRun == parse_transaction(txn, "signature")

LogLines ==
    IF ~HasMeta THEN <<>>
    ELSE IF txn.transaction.meta.some.log_messages = None THEN <<>>
    ELSE txn.transaction.meta.some.log_messages.some

\* C18: the reconstruction of token transfers from the logs yields the empty
\* sequence for every record, with or without logs, also when a line contains
\* "Transfer" and "amount:" or "Token:Transfer": token_transfers is always
\* empty.
C18_NoTokenTransfers ==
    (Parsed /\ result.ok) => result.val.token_transfers = <<>>

\* a record whose logs have a line with "Transfer" and "amount:" and a line
\* with "Token:Transfer" has been decoded: the logs are kept, no transfer is
\* reported
C18_Witness ==
    /\ Parsed /\ result.ok
    /\ \E k \in 1..Len(LogLines) :
          Contains(LogLines[k], "Transfer") /\ Contains(LogLines[k], "amount:")
    /\ \E k \in 1..Len(LogLines) : Contains(LogLines[k], "Token:Transfer")
    /\ result.val.logs = LogLines
    /\ result.val.token_transfers = <<>>

\* the entries of the parsed value of an instruction that carry a string under
\* the key `type`
TypeEntries(ui_instr) ==
    IF ui_instr.parsed.j # "obj" THEN {}
    ELSE {i \in 1..Len(ui_instr.parsed.o) :
             ui_instr.parsed.o[i][1] = "type" /\ ui_instr.parsed.o[i][2].j = "str"}

\* C19: the instruction_type of a semantically parsed instruction is the string
\* of its `type` field when it has one, and "Unknown" otherwise (no `type`
\* field, or one that is not a string).
C19_ParsedType ==
    (Parsed /\ result.ok) =>
        \A k \in 1..Len(TopLevel) :
            TopLevel[k].kind = "Parsed" =>
                /\ \A i \in TypeEntries(TopLevel[k]) :
                      result.val.instructions[k].instruction_type
                          = TopLevel[k].parsed.o[i][2].s
                /\ TypeEntries(TopLevel[k]) = {} =>
                      result.val.instructions[k].instruction_type = "Unknown"

\* a parsed instruction with the type "memo" and one whose parsed value is a
\* bare string have been normalised in the same message
C19_Witness ==
    /\ Parsed /\ result.ok /\ IsParsedMessage
    /\ Len(TopLevel) = 2
    /\ TopLevel[1].kind = "Parsed" /\ TopLevel[2].kind = "Parsed"
    /\ TypeEntries(TopLevel[1]) # {}
    /\ TypeEntries(TopLevel[2]) = {}
    /\ result.val.instructions[1].instruction_type = "memo"
    /\ result.val.instructions[2].instruction_type = "Unknown"

\* the entries of the `info` object of a semantically parsed instruction
InfoEntries(ui_instr) ==
    IF ui_instr.parsed.j # "obj" THEN <<>>
    ELSE LET infos == SelectSeq(ui_instr.parsed.o, LAMBDA e : e[1] = "info")
         IN  IF infos = <<>> THEN <<>>
             ELSE IF infos[1][2].j # "obj" THEN <<>> ELSE infos[1][2].o

\* an entry whose value is a string that parses as a pubkey
NamesAccount(entry) ==
    IF entry[2].j = "str" THEN Pubkey_from_str(entry[2].s).ok ELSE FALSE

\* C20: every entry of `info` whose value is a string that parses as a pubkey
\* becomes one account, in the order of the entries, with the key as its role
\* label, is_signer iff the key contains "authority" or "owner" and is_writable
\* iff the key contains "source" or "destination"; an entry whose value is not
\* a string or not a pubkey gives no account and no failure.
C20_InfoAccounts ==
    (Parsed /\ HasMeta /\ IsParsedMessage) =>
        /\ result.ok
        /\ \A k \in 1..Len(TopLevel) :
              TopLevel[k].kind = "Parsed" =>
                  LET named == SelectSeq(InfoEntries(TopLevel[k]), NamesAccount)
                      accounts == result.val.instructions[k].accounts
                  IN  /\ Len(accounts) = Len(named)
                      /\ \A n \in 1..Len(named) :
                            LET key == named[n][1]
                            IN  /\ accounts[n].pubkey = Pubkey_from_str(named[n][2].s).val
                                /\ accounts[n].account_type = Some(key)
                                /\ accounts[n].is_signer
                                      = (Contains(key, "authority") \/ Contains(key, "owner"))
                                /\ accounts[n].is_writable
                                      = (Contains(key, "source") \/ Contains(key, "destination"))

\* an `info` object of six entries, one a number and one a string that is no
\* pubkey, has given four accounts: the authority a signer, the destination and
\* the source writable, and "newAuthority" neither
C20_Witness ==
    /\ Parsed /\ result.ok /\ IsParsedMessage
    /\ Len(TopLevel) >= 1
    /\ TopLevel[1].kind = "Parsed"
    /\ Len(InfoEntries(TopLevel[1])) = 6
    /\ Len(result.val.instructions[1].accounts) = 4
    /\ [n \in 1..4 |-> result.val.instructions[1].accounts[n].account_type]
          = <<Some("authority"), Some("destination"), Some("newAuthority"), Some("source")>>
    /\ [n \in 1..4 |-> result.val.instructions[1].accounts[n].is_signer]
          = <<TRUE, FALSE, FALSE, FALSE>>
    /\ [n \in 1..4 |-> result.val.instructions[1].accounts[n].is_writable]
          = <<FALSE, TRUE, FALSE, TRUE>>

\* the data of an instruction followed by its decoded length, when it decodes
\* from base58 to at least one byte, and the data unchanged when it does not
Annotated(data) ==
    LET decoded == Bs58Decode(data)
    IN  IF decoded.ok
        THEN IF decoded.val # <<>>
             THEN data \o " (" \o ToString(Len(decoded.val)) \o " bytes)"
             ELSE data
        ELSE data

C22_FlagsFromHeader ==
    (Parsed /\ HasMeta /\ IsRaw /\ result.ok) =>
        \A k \in 1..Len(TopLevel) :
            LET kept == InRangeIndices(TopLevel[k])
                accounts == result.val.instructions[k].accounts
            IN  \A n \in 1..Len(kept) :
                    /\ accounts[n].is_signer = result.val.accounts[kept[n] + 1].is_signer
                    /\ accounts[n].is_writable = result.val.accounts[kept[n] + 1].is_writable

\* the index n names an entry of the account-key list of the message that
\* parses as a public key
NamesKey(n) == IF n < TotalKeys THEN KeyParses(n) ELSE FALSE

\* C25: the index k of a compiled instruction (program_id_index or account
\* index) resolves to the pubkey of the k-th entry of the account-key list of
\* the message, the account the top-level list binds to position k, also when
\* an earlier key string does not parse.
C25_IndexAlignment ==
    (Parsed /\ HasMeta /\ IsRaw
       /\ \A k \in 1..Len(TopLevel) : NamesKey(TopLevel[k].program_id_index)) =>
        /\ result.ok
        /\ \A k \in 1..Len(TopLevel) :
              LET named == SelectSeq(TopLevel[k].accounts, NamesKey)
                  instruction == result.val.instructions[k]
              IN  /\ instruction.program_id
                        = Pubkey_from_str(KeyString(TopLevel[k].program_id_index)).val
                  /\ Len(instruction.accounts) = Len(named)
                  /\ \A n \in 1..Len(named) :
                        /\ instruction.accounts[n].pubkey
                              = Pubkey_from_str(KeyString(named[n])).val
                        /\ instruction.accounts[n].pubkey
                              = result.val.accounts[OutputPosition(named[n])].pubkey

(***************************************************************************)
(* Properties of the interface.                                            *)
(***************************************************************************)
\* the interface is waiting for a key
AwaitingKey == pc = "app" /\ outcome = "running"

\* the key of the character c, pressed alone
Plain(c) == KeyEvent("Char", c, "NONE")

\* C23: on the error screen the key 'r' returns to the input screen with the
\* state reset, and the key 'q' quits the application.
C23_ErrorScreenKeys ==
    (AwaitingKey /\ app.screen.kind = "Error") =>
        \A reply \in Replies :
            /\ handle_key_event(app, Plain("r"), reply) = Running(reset(app))
            /\ handle_key_event(app, Plain("q"), reply).outcome = "quit"

\* C24: on the Input, Transaction, Account and Error screens a key makes the
\* handler signal quit if and only if it is Ctrl+C or Esc; 'q' on the input
\* screen does not quit and, when the call returns, is inserted into the input.
C24_QuitOnlyOnCtrlCOrEsc ==
    (AwaitingKey /\ app.screen.kind \in {"Input", "Transaction", "Account", "Error"}) =>
        \A key \in Keys, reply \in Replies :
            LET handled == handle_key_event(app, key, reply)
            IN  /\ handled.outcome = "quit" <=> (IsCtrlC(key) \/ key.code = "Esc")
                /\ (app.screen.kind = "Input" /\ key = Plain("q")
                      /\ handled.outcome # "panic") =>
                       /\ handled.outcome = "running"
                       /\ Len(handled.app.input) = Len(app.input) + 1
                       /\ \E i \in 1..Len(handled.app.input) :
                              /\ CharAt(handled.app.input, i) = "q"
                              /\ SubSeq(handled.app.input, 1, i - 1) = SubSeq(app.input, 1, i - 1)
                              /\ SubSeq(handled.app.input, i + 1, Len(app.input) + 1)
                                    = SubSeq(app.input, i, Len(app.input))

\* C26: after any sequence of editing operations input_cursor is between 0 and
\* the byte length of input and lies on a character boundary, and no
\* insert_char or delete_char call panics.
C26_CursorOnBoundary ==
    pc = "app" =>
        /\ 0 <= app.input_cursor
        /\ app.input_cursor <= ByteLen(app.input)
        /\ is_char_boundary(app.input, app.input_cursor)
        /\ outcome # "panic"

\* C27: on the Transaction screen transaction_data is present, on the Account
\* screen account_data is present, and the two are never both present.
C27_DataMatchesScreen ==
    pc = "app" =>
        /\ app.screen.kind = "Transaction" => app.transaction_data # None
        /\ app.screen.kind = "Account" => app.account_data # None
        /\ ~(app.transaction_data # None /\ app.account_data # None)

\* an account is shown on a network chosen during an earlier query
C27_Witness ==
    /\ pc = "app"
    /\ app.screen.kind = "Account"
    /\ app.account_data # None
    /\ app.transaction_data = None
    /\ app.selected_network # "Mainnet"

\* C28: no call of handle_key_event returns with the Loading screen: the screen
\* is never Loading when a key is awaited, and submit_query always replaces the
\* Loading screen that it sets by Transaction, Account or Error.
C28_LoadingTransient ==
    pc = "app" =>
        /\ app.screen.kind # "Loading"
        /\ \A key \in Keys, reply \in Replies :
               handle_key_event(app, key, reply).app.screen.kind # "Loading"
        /\ \A reply \in Replies :
               submit_query(app, reply).app.screen.kind \in {"Transaction", "Account", "Error"}

\* submit_query has replaced the Loading screen by the error of a failed fetch
C28_Witness ==
    /\ pc = "app"
    /\ app.screen = Screen_Error("Failed to fetch transaction: rpc")

\* C29: on the NetworkSelection screen the input classifies as Transaction or
\* Account, no key changes input or input_cursor, Esc and Backspace return to
\* the Input screen, and submit_query does not take its Unknown branch.
C29_NetworkSelectionInput ==
    (AwaitingKey /\ app.screen.kind = "NetworkSelection") =>
        /\ get_input_type(app) \in {"Transaction", "Account"}
        /\ \A key \in Keys, reply \in Replies :
               LET handled == handle_key_event(app, key, reply)
               IN  /\ handled.app.input = app.input
                   /\ handled.app.input_cursor = app.input_cursor
                   /\ key.code \in {"Esc", "Backspace"} =>
                          handled.app.screen = Screen("Input")
                   /\ handled.app.screen # Screen_Error(InvalidInputMessage)

\* the signature has been typed and accepted, and a network has been chosen
C29_Witness ==
    /\ AwaitingKey
    /\ app.screen.kind = "NetworkSelection"
    /\ app.input = TypedSignature
    /\ app.selected_network = "Testnet"

\* C30: reset, from any state, sets the screen to Input, empties the input
\* with the cursor at 0, clears error_message, transaction_data and
\* account_data, zeroes both scroll offsets, sets the tab to Overview and leaves
\* selected_network unchanged.
C30_ResetFrame ==
    pc = "app" =>
        reset(app) = [screen |-> Screen("Input"),
                      input |-> "",
                      input_cursor |-> 0,
                      selected_network |-> app.selected_network,
                      error_message |-> None,
                      transaction_data |-> None,
                      account_data |-> None,
                      txn_scroll |-> 0,
                      account_scroll |-> 0,
                      transaction_tab |-> "Overview"]

\* a transaction fetched on another network is shown on another tab and
\* scrolled: reset changes every field but selected_network
C30_Witness ==
    /\ AwaitingKey
    /\ app.screen.kind = "Transaction"
    /\ app.selected_network = "Devnet"
    /\ app.transaction_tab = "Logs"
    /\ app.txn_scroll > 0
    /\ handle_key_event(app, Plain("r"), "found").app = reset(app)
====
